---- MODULE Spec2Model ----
(***************************************************************************)
(* Knowledge-base sub-system of the EVM MCP server (tools.ts): the         *)
(* Chunker (chunkMarkdown, chunkCode), the Indexer (kbSyncSource,          *)
(* kbUpdateAll), Search (kbSearch), retrieval (kbGet, kbStatus); the chain *)
(* and explorer tools with the public-client cache (tools.ts, clients.ts). *)
(* Text is a sequence of one-character strings; line numbers inside the    *)
(* chunker are 0-based as in the source, chunk records carry 1-based ones. *)
(***************************************************************************)
EXTENDS Integers, Sequences, FiniteSets, TLC

\* ------------------------------------------------------------------------
\* State
\* ------------------------------------------------------------------------
VARIABLES
  chunkInput, \* chunker specification: the file content handed to the chunker
  fext,      \* chunker specification: the file's lower-cased extension
  chunked,   \* chunker specification: whether the chunker has been applied
  parts,     \* chunker specification: the chunks it returned
  registry,  \* .kb/registry.json: the manifests, in file order (absent reads as [])
  sources,   \* .kb/sources: directory (srcRoot of an id) -> its manifest.json and chunks.jsonl
  clock,     \* the time new Date() returns next
  calls,     \* kbSyncSource invocations started so far
  proc,      \* per caller: where its kbSyncSource invocation stands, and its locals
  reply,     \* what the last kbSearch or kbGet returned
  lastSync,  \* history: parameters -> chunk ids persisted by their last completed ingestion
  lastManifest, \* history: source id -> the manifest its last completed ingestion returned
  upd,       \* where the kbUpdateAll invocation stands, and its locals
  gone,      \* the roots (directories, archive URLs) that have ceased to exist
  rpc,       \* where the invocation of a chain or explorer tool stands, and its locals
  clientCache, \* clients.ts: chain id -> the cached public client
  clients    \* history of getPublicClient: the clients created and those returned

chunkVars == <<chunkInput, fext, chunked, parts>>
kbVars == <<registry, sources, clock, calls, proc, reply, lastSync, lastManifest, upd, gone>>
\* what kbSyncSource neither reads nor writes
rpcVars == <<rpc, clientCache, clients>>
otherVars == <<upd, gone, rpcVars, chunkVars>>
vars == <<chunkInput, fext, chunked, parts, registry, sources, clock, calls, proc, reply, lastSync,
          lastManifest, upd, gone, rpc, clientCache, clients>>

\* ------------------------------------------------------------------------
\* Bounds of the model
\* ------------------------------------------------------------------------
\* longest generated content, in characters, over the alphabet ChunkChars
MaxChars == 4
\* most lines of a content put together from the lines of ChunkLines
MaxSmallLines == 3
\* most lines of a long, uniform file
MaxLongLines == 405

\* ------------------------------------------------------------------------
\* Strings
\* ------------------------------------------------------------------------
\* characters matched by \s and removed by String.prototype.trim
WS == {" ", "\t", "\r", "\n"}
\* characters the regular expression dot does not match
LineTerminators == {"\n", "\r"}

Min(a, b) == IF a < b THEN a ELSE b

\* String.prototype.toLowerCase, on the letters the model uses
Lower(c) ==
  CASE c = "A" -> "a"
    [] c = "B" -> "b"
    [] c = "M" -> "m"
    [] c = "D" -> "d"
    [] OTHER -> c

toLowerCase(s) == [i \in 1..Len(s) |-> Lower(s[i])]

\* s.startsWith(p)
startsWith(s, p) == Len(p) <= Len(s) /\ SubSeq(s, 1, Len(p)) = p

RECURSIVE SplitRange(_, _, _)
\* the pieces of s[lo..hi] between "\n" characters (always at least one piece)
SplitRange(s, lo, hi) ==
  IF lo > hi THEN << <<>> >>
  ELSE IF lo = hi THEN (IF s[lo] = "\n" THEN << <<>>, <<>> >> ELSE << <<s[lo]>> >>)
  ELSE LET mid == (lo + hi) \div 2
           L == SplitRange(s, lo, mid)
           R == SplitRange(s, mid + 1, hi)
       IN  SubSeq(L, 1, Len(L) - 1) \o << L[Len(L)] \o R[1] >> \o SubSeq(R, 2, Len(R))

\* content.split(/\r?\n/): a "\r" right before a separating "\n" belongs to
\* the separator; the empty string splits into one empty line
SplitLines(content) ==
  LET raw == SplitRange(content, 1, Len(content))
  IN  [k \in 1..Len(raw) |->
         IF k < Len(raw) /\ Len(raw[k]) > 0 /\ raw[k][Len(raw[k])] = "\r"
         THEN SubSeq(raw[k], 1, Len(raw[k]) - 1)
         ELSE raw[k]]

RECURSIVE JoinRange(_, _, _)
\* lines[lo..hi] (1-based, inclusive) joined with "\n"
JoinRange(lines, lo, hi) ==
  IF lo > hi THEN <<>>
  ELSE IF lo = hi THEN lines[lo]
  ELSE LET mid == (lo + hi) \div 2
       IN  JoinRange(lines, lo, mid) \o <<"\n">> \o JoinRange(lines, mid + 1, hi)

\* n lines, each equal to line
Uniform(n, line) == JoinRange([k \in 1..n |-> line], 1, n)

\* lines.slice(from, to).join("\n"), from and to 0-based, to exclusive
SliceJoin(lines, from, to) == JoinRange(lines, from + 1, Min(to, Len(lines)))

RECURSIVE FirstNonWs(_, _, _)
\* least index in lo..hi of a character that is not white space, 0 if none
FirstNonWs(s, lo, hi) ==
  IF lo > hi THEN 0
  ELSE IF lo = hi THEN (IF s[lo] \in WS THEN 0 ELSE lo)
  ELSE LET mid == (lo + hi) \div 2
           l == FirstNonWs(s, lo, mid)
       IN  IF l # 0 THEN l ELSE FirstNonWs(s, mid + 1, hi)

RECURSIVE LastNonWs(_, _, _)
\* greatest index in lo..hi of a character that is not white space, 0 if none
LastNonWs(s, lo, hi) ==
  IF lo > hi THEN 0
  ELSE IF lo = hi THEN (IF s[lo] \in WS THEN 0 ELSE lo)
  ELSE LET mid == (lo + hi) \div 2
           r == LastNonWs(s, mid + 1, hi)
       IN  IF r # 0 THEN r ELSE LastNonWs(s, lo, mid)

\* String.prototype.trim
Trim(s) ==
  LET f == FirstNonWs(s, 1, Len(s))
  IN  IF f = 0 THEN <<>> ELSE SubSeq(s, f, LastNonWs(s, 1, Len(s)))

\* /^#{1,3}\s+.+/.test(line): one to three "#", at least one white-space
\* character, then at least one character that is no line terminator
IsHeading(line) ==
  \E k \in 1..3 : \E m \in 1..Len(line) :
      /\ k + m + 1 <= Len(line)
      /\ \A j \in 1..k : line[j] = "#"
      /\ \A j \in (k + 1)..(k + m) : line[j] \in WS
      /\ line[k + m + 1] \notin LineTerminators

\* ------------------------------------------------------------------------
\* Chunker
\* ------------------------------------------------------------------------
windowSize == 150
overlap == 30
maxLines == 200

\* MdStep with the next section started after the heading line instead of
\* at it
MdStepAfterHeading(lines, i, st) ==
  IF IsHeading(lines[i + 1]) /\ i # 0
  THEN LET text == Trim(SliceJoin(lines, st.start, i))
       IN  [start  |-> i + 1,
            chunks |-> IF text # <<>>
                       THEN Append(st.chunks, [start |-> st.start, end |-> i - 1, text |-> text])
                       ELSE st.chunks]
  ELSE st

\* body of the heading loop for index i (0-based); st = [start, chunks]
MdStep(lines, i, st) ==
  IF IsHeading(lines[i + 1]) /\ i # 0
  THEN LET text == Trim(SliceJoin(lines, st.start, i))
       IN  [start  |-> i,
            chunks |-> IF text # <<>>
                       THEN Append(st.chunks, [start |-> st.start, end |-> i - 1, text |-> text])
                       ELSE st.chunks]
  ELSE st

RECURSIVE MdLoop(_, _, _, _)
\* the heading loop run for i = lo..hi, in order
MdLoop(lines, lo, hi, st) ==
  IF lo > hi THEN st
  ELSE IF lo = hi THEN MdStep(lines, lo, st)
  ELSE LET mid  == (lo + hi) \div 2
           left == MdLoop(lines, lo, mid, st)
       IN  \* the test makes TLC evaluate the first half before the second
           IF left.start >= 0 THEN MdLoop(lines, mid + 1, hi, left) ELSE left

RECURSIVE MdFallback(_, _, _)
\* the fallback loop from index i on: windows of maxLines lines, no overlap
MdFallback(lines, i, chunks) ==
  IF i >= Len(lines) THEN chunks
  ELSE MdFallback(lines, i + maxLines,
         Append(chunks, [start |-> i,
                         end   |-> Min(i + maxLines - 1, Len(lines) - 1),
                         text  |-> SliceJoin(lines, i, Min(i + maxLines, Len(lines)))]))

chunkMarkdown(content) ==
  LET lines  == SplitLines(content)
      st     == MdLoop(lines, 0, Len(lines) - 1, [start |-> 0, chunks |-> <<>>])
      tail   == Trim(SliceJoin(lines, st.start, Len(lines)))
      chunks == IF tail # <<>>
                THEN Append(st.chunks, [start |-> st.start, end |-> Len(lines) - 1, text |-> tail])
                ELSE st.chunks
  IN  IF Len(chunks) = 0 THEN MdFallback(lines, 0, <<>>) ELSE chunks

\* CodeStride with the overlap added instead of subtracted
CodeStrideAdded == windowSize + overlap

\* the stride of the window loop
CodeStride == windowSize - overlap

RECURSIVE CodeLoop(_, _, _)
\* the window loop from index i on
CodeLoop(lines, i, chunks) ==
  IF i >= Len(lines) THEN chunks
  ELSE LET start == i
           end   == Min(i + windowSize, Len(lines)) - 1
           next  == Append(chunks, [start |-> start, end |-> end,
                                    text |-> SliceJoin(lines, start, end + 1)])
       IN  IF end + 1 >= Len(lines) THEN next
           ELSE CodeLoop(lines, i + CodeStride, next)

chunkCode(content) ==
  LET lines  == SplitLines(content)
      chunks == CodeLoop(lines, 0, <<>>)
  IN  IF Len(chunks) = 0
      THEN <<[start |-> 0, end |-> Len(lines) - 1, text |-> content]>>
      ELSE chunks

\* extensions
MD == <<".", "m", "d">>
TS == <<".", "t", "s">>

\* policy selection: ext === ".md" ? chunkMarkdown(text) : chunkCode(text)
ChunkFile(ext, text) == IF ext = MD THEN chunkMarkdown(text) ELSE chunkCode(text)

\* ------------------------------------------------------------------------
\* Paths, extensions, hashes
\* ------------------------------------------------------------------------
SOL == <<".", "s", "o", "l">>
YUL == <<".", "y", "u", "l">>
JS == <<".", "j", "s">>
JSON == <<".", "j", "s", "o", "n">>
YML == <<".", "y", "m", "l">>
YAML == <<".", "y", "a", "m", "l">>

\* the default of kbSyncSchema.includeExts
DefaultExts == <<MD, SOL, YUL, TS, JS, JSON, YML, YAML>>

\* arr.includes(x)
includes(arr, x) == \E k \in 1..Len(arr) : arr[k] = x

isTextFile(ext) == includes(DefaultExts, toLowerCase(ext))

\* greatest element of a non-empty set of integers
MaxOf(S) == CHOOSE x \in S : \A y \in S : y <= x

\* path.extname(p): from the last "." of the base name on, empty when the base
\* name has no "." or only a leading one
extname(p) ==
  LET slashes == {i \in 1..Len(p) : p[i] = "/"}
      b       == IF slashes = {} THEN 0 ELSE MaxOf(slashes)
      dots    == {i \in (b + 2)..Len(p) : p[i] = "."}
  IN  IF dots = {} THEN <<>> ELSE SubSeq(p, MaxOf(dots), Len(p))

\* path.join(dir, name) for paths relative to the ingested root
joinPath(dir, name) == IF dir = <<>> THEN name ELSE dir \o <<"/">> \o name

\* s.replace(/^\/+/, "")
RECURSIVE StripSlashes(_)
StripSlashes(s) ==
  IF s # <<>> /\ s[1] = "/" THEN StripSlashes(SubSeq(s, 2, Len(s))) ELSE s

\* crypto sha256 hex digest, taken as injective
sha256(data) == <<"sha256", data>>

\* Cid with the time of ingestion hashed in
CidTimed(id, rel, part) ==
  sha256(<<id, rel, part.start, part.end, sha256(part.text), clock>>)

\* the chunk id: sha256(`${id}:${rel}:${start}-${end}:${sha256(text)}`).slice(0, 32)
Cid(id, rel, part) == sha256(<<id, rel, part.start, part.end, sha256(part.text)>>)

\* FileRecords with the chunker's 0-based line numbers left as they are
FileRecordsZeroBased(id, rel, ext, text) ==
  LET ps == ChunkFile(ext, text)
  IN  [k \in 1..Len(ps) |->
         [id        |-> Cid(id, rel, ps[k]),
          sourceId  |-> id,
          path      |-> rel,
          startLine |-> ps[k].start,
          endLine   |-> ps[k].end,
          ext       |-> ext,
          text      |-> ps[k].text]]

\* the records pushed to chunksOut for one file
FileRecords(id, rel, ext, text) ==
  LET ps == ChunkFile(ext, text)
  IN  [k \in 1..Len(ps) |->
         [id        |-> Cid(id, rel, ps[k]),
          sourceId  |-> id,
          path      |-> rel,
          startLine |-> ps[k].start + 1,
          endLine   |-> ps[k].end + 1,
          ext       |-> ext,
          text      |-> ps[k].text]]

\* ------------------------------------------------------------------------
\* The world outside the knowledge base: local directories and archives.
\* It does not change, so every directory and archive is "unchanged".
\* ------------------------------------------------------------------------
\* number of heading lines of the file big.md
BigSections == 12

TextA ==
  JoinRange(<< <<"#", " ", "a">>,
               <<"a", "b", " ", "a", "b", " ", "A", "B">>,
               <<"#", "#", " ", "b">>,
               <<"a", "b">> >>, 1, 4)
TextB == <<"a", "b", " ", "b">>
TextCode == <<"a", "a", "a", "\n", "b">>
TextSub == <<"a", "b">>
TextBig == Uniform(BigSections, <<"#", " ", "a">>)
TextZip == <<"a", "b", "\n", "#", " ", "c", "\n", "a", "b">>

A_MD == <<"a", ".", "m", "d">>
B_TS == <<"b", ".", "t", "s">>
N_TXT == <<"n", ".", "t", "x", "t">>
X_MD == <<"x", ".", "m", "d">>
BIG_MD == <<"b", "i", "g", ".", "m", "d">>
C_MD_UPPER == <<"c", ".", "M", "D">>

File(name) == [name |-> name, kind |-> "file"]
Dir(name) == [name |-> name, kind |-> "dir"]

\* fs.stat(absDir): the directories that exist
LocalDirs == {"/w/s1", "/w/v 2", "/w/big", "/w/bad"}

\* path.basename(absDir)
basename(absDir) ==
  CASE absDir = "/w/s1" -> <<"s", "1">>
    [] absDir = "/w/v 2" -> <<"v", " ", "2">>
    [] absDir = "/w/big" -> <<"b", "i", "g">>
    [] absDir = "/w/bad" -> <<"b", "a", "d">>
    [] OTHER -> <<"g", "o", "n", "e">>

\* fs.readdir(dir, { withFileTypes: true }) of the directory rel under absDir:
\* [ok |-> FALSE] when it throws
readdir(absDir, rel) ==
  CASE absDir = "/w/s1" /\ rel = <<>> ->
         [ok |-> TRUE, entries |-> <<File(A_MD), File(B_TS), File(N_TXT), Dir(<<"s">>)>>]
    [] absDir = "/w/s1" /\ rel = <<"s">> ->
         [ok |-> TRUE, entries |-> <<File(C_MD_UPPER)>>]
    [] absDir = "/w/v 2" /\ rel = <<>> ->
         [ok |-> TRUE, entries |-> <<File(X_MD), File(A_MD)>>]
    [] absDir = "/w/big" /\ rel = <<>> ->
         [ok |-> TRUE, entries |-> <<File(BIG_MD)>>]
    [] absDir = "/w/bad" /\ rel = <<>> ->
         [ok |-> TRUE, entries |-> <<File(A_MD), Dir(<<"u">>)>>]
    [] OTHER -> [ok |-> FALSE, entries |-> <<>>]

\* fs.readFile(filePath, "utf8") of the file rel under absDir
readFile(absDir, rel) ==
  CASE absDir = "/w/s1" /\ rel = A_MD -> [ok |-> TRUE, text |-> TextA]
    [] absDir = "/w/s1" /\ rel = B_TS -> [ok |-> TRUE, text |-> TextCode]
    [] absDir = "/w/s1" /\ rel = N_TXT -> [ok |-> TRUE, text |-> TextSub]
    [] absDir = "/w/s1" /\ rel = joinPath(<<"s">>, C_MD_UPPER) -> [ok |-> TRUE, text |-> TextSub]
    [] absDir = "/w/v 2" /\ rel = A_MD -> [ok |-> TRUE, text |-> TextB]
    [] absDir = "/w/big" /\ rel = BIG_MD -> [ok |-> TRUE, text |-> TextBig]
    [] absDir = "/w/bad" /\ rel = A_MD -> [ok |-> TRUE, text |-> TextA]
    [] OTHER -> [ok |-> FALSE, text |-> <<>>]

\* one directory of walkDir's loop: the files go to out, the sub-directories
\* onto the stack
RECURSIVE WalkEntries(_, _, _, _, _)
WalkEntries(dir, entries, k, stack, out) ==
  IF k > Len(entries) THEN [stack |-> stack, out |-> out]
  ELSE LET ent == entries[k]
           p   == joinPath(dir, ent.name)
       IN  IF ent.kind = "dir" THEN WalkEntries(dir, entries, k + 1, Append(stack, p), out)
           ELSE IF ent.kind = "file" THEN WalkEntries(dir, entries, k + 1, stack, Append(out, p))
           ELSE WalkEntries(dir, entries, k + 1, stack, out)

RECURSIVE WalkStack(_, _, _)
WalkStack(root, stack, out) ==
  IF stack = <<>> THEN [ok |-> TRUE, files |-> out]
  ELSE LET dir  == stack[Len(stack)]
           rest == SubSeq(stack, 1, Len(stack) - 1)
           rd   == readdir(root, dir)
       IN  IF ~rd.ok THEN [ok |-> FALSE, files |-> <<>>]
           ELSE LET r == WalkEntries(dir, rd.entries, 1, rest, out)
                IN  WalkStack(root, r.stack, r.out)

\* walkDir(root): the files under root, as paths relative to root (what
\* path.relative(absDir, filePath) gives back); ok = FALSE when a readdir throws
walkDir(root) == WalkStack(root, << <<>> >>, <<>>)

\* the buffer of an archive payload: Buffer.from(zipBase64, "base64"), or the
\* body fetched from zipUrl (ok = FALSE when fetchWithAuth throws)
fetchWithAuth(u) ==
  IF u = "http://h/r.zip" /\ u \notin gone THEN [ok |-> TRUE, buf |-> "U1"]
  ELSE [ok |-> FALSE, buf |-> ""]

\* path.basename(zipUrl).replace(/\W+/g, "-")
zipUrlBase(u) ==
  IF u = "http://h/r.zip" THEN <<"r", "-", "z", "i", "p">> ELSE <<"4", "0", "4">>

\* sha256(buf).slice(0, 8), as characters
sha8(buf) ==
  CASE buf = "B1" -> <<"b", "1">>
    [] buf = "U1" -> <<"c", "2">>
    [] OTHER -> <<"d", "3">>

Entry(name, isDir, readable, text) ==
  [name |-> name, dir |-> isDir, readable |-> readable, text |-> text]

\* JSZip.loadAsync(buf): Object.keys(zip.files) in archive order with each
\* entry; ok = FALSE when the buffer is no archive. entry.async("string")
\* throws for an entry that is not readable.
loadAsync(buf) ==
  CASE buf = "B1" ->
         [ok |-> TRUE,
          entries |-> << Entry(<<"p", "/">>, TRUE, TRUE, <<>>),
                         Entry(<<"p", "/">> \o A_MD, FALSE, TRUE, TextZip),
                         Entry(<<"p", "/">> \o X_MD, FALSE, FALSE, <<>>),
                         Entry(N_TXT, FALSE, TRUE, TextSub),
                         Entry(B_TS, FALSE, TRUE, TextCode) >>]
    [] buf = "U1" ->
         [ok |-> TRUE, entries |-> << Entry(A_MD, FALSE, TRUE, TextB) >>]
    [] OTHER -> [ok |-> FALSE, entries |-> <<>>]

\* id.replace(/[^a-zA-Z0-9._-]/g, "_") on the characters the model uses
sanitizeId(s) == [i \in 1..Len(s) |-> IF s[i] \in {" ", "/", "#"} THEN "_" ELSE s[i]]

\* the source id "."
Dot == <<".">>

\* srcRoot = path.join(srcRootBase, id), as a path relative to .kb/sources,
\* for the ids the model uses: the id itself, and for the id "." the
\* directory .kb/sources (the empty path)
srcRoot(id) == IF id = Dot THEN <<>> ELSE id

\* the directory x is the directory root or lies under it
Within(x, root) == root = <<>> \/ x = root \/ startsWith(x, root \o <<"/">>)

\* fs.rm(root, { recursive: true, force: true }): root goes with all it holds
Rm(srcs, root) == [x \in {y \in DOMAIN srcs : ~Within(y, root)} |-> srcs[x]]

\* ------------------------------------------------------------------------
\* Inputs of the chunker specification
\* ------------------------------------------------------------------------
ChunkChars == {"#", " ", "a", "\n"}

ChunkLines == { <<>>, <<" ">>, <<"a">>, <<"#", " ", "a">>, <<"#", "#", " ", "a", "\r">> }

SeqsUpTo(S, n) == UNION { [1..k -> S] : k \in 0..n }

ChunkInputs ==
  SeqsUpTo(ChunkChars, MaxChars)
    \cup { JoinRange(ls, 1, Len(ls)) : ls \in SeqsUpTo(ChunkLines, MaxSmallLines) \ {<<>>} }
    \cup { Uniform(n, <<"a">>) : n \in 1..MaxLongLines }
    \cup { Uniform(n, <<" ">>) : n \in 1..MaxLongLines }
    \cup { <<"#", " ", "a", "\n">> \o Uniform(n, <<"a">>) : n \in 1..MaxLongLines }

\* ------------------------------------------------------------------------
\* Parameters of the tools
\* ------------------------------------------------------------------------
\* most kbSyncSource invocations callers make in one behaviour
MaxCalls == 2
\* most kbUpdateAll invocations in one behaviour
MaxUpdates == 1
\* number of callers that may run kbSyncSource concurrently
NumProcs == 2

Procs == 1..NumProcs

S1 == <<"s", "1">>
S2 == <<"s", "2">>
ZipPrefix == <<"p", "/">>

\* a field that is undefined in the JavaScript object
Undefined == "<undefined>"
\* zipUrl || null
Null == "<null>"

\* a kbSyncSource parameter object after kbSyncSchema.parse. An absent string
\* is the empty one (the code tests these parameters for truthiness only) and
\* an absent maxFiles is 0, which the schema does not accept as a value.
SyncParams(sourceId, localDir, zipUrl, zipBase64, zipPathPrefix, includeExts, tags, maxFiles) ==
  [sourceId |-> sourceId, localDir |-> localDir, zipUrl |-> zipUrl, zipBase64 |-> zipBase64,
   zipPathPrefix |-> zipPathPrefix, includeExts |-> includeExts, tags |-> tags,
   maxFiles |-> maxFiles]

Local(sourceId, localDir) == SyncParams(sourceId, localDir, "", "", <<>>, DefaultExts, <<>>, 0)
Zip64(sourceId, zipBase64) == SyncParams(sourceId, "", "", zipBase64, <<>>, DefaultExts, <<>>, 0)
ZipUrl(sourceId, zipUrl) == SyncParams(sourceId, "", zipUrl, "", <<>>, DefaultExts, <<>>, 0)

\* the parameter objects the callers pass
SyncParamSet ==
  { Local(S1, "/w/s1"),
    Local(S1, "/w/v 2"),
    [Local(S2, "/w/v 2") EXCEPT !.tags = <<"t">>],
    [Local(<<>>, "/w/s1") EXCEPT !.includeExts = <<MD>>, !.maxFiles = 1],
    [Local(S1, "/w/s1") EXCEPT !.maxFiles = 2],
    Local(S2, "/w/big"),
    Local(S1, "/w/bad"),
    Local(S1, "/w/gone"),
    Local(S1, ""),
    [Local(S1, "/w/s1") EXCEPT !.zipBase64 = "B1"],
    [Zip64(S2, "B1") EXCEPT !.zipPathPrefix = ZipPrefix],
    [Zip64(<<>>, "B1") EXCEPT !.maxFiles = 2],
    Zip64(S1, "BX"),
    ZipUrl(<<>>, "http://h/r.zip"),
    ZipUrl(S2, "http://h/404") }

\* the elements of a sequence
Range(seq) == {seq[k] : k \in 1..Len(seq)}

\* arr.slice(0, n)
slice0(arr, n) == SubSeq(arr, 1, Min(n, Len(arr)))

RECURSIVE Flatten(_, _)
\* the records of seqs[k..] in order
Flatten(seqs, k) == IF k > Len(seqs) THEN <<>> ELSE seqs[k] \o Flatten(seqs, k + 1)

NoResult == [status |-> "none", error |-> "", source |-> <<>>]
NoReply == [op |-> "none"]

IdleProc ==
  [pc |-> "idle", params |-> Local(<<>>, ""), id |-> <<>>, absDir |-> "", buf |-> "",
   files |-> <<>>, idx |-> 0, chunksOut |-> <<>>, fileCount |-> 0, manifest |-> <<>>,
   regRead |-> <<>>, result |-> NoResult, prevRecs |-> <<>>, again |-> FALSE, prevIds |-> {},
   before |-> <<>>]

\* kbUpdateAll is not running; srcs is history: .kb/sources when it was called
IdleUpd ==
  [pc |-> "idle", reg |-> <<>>, idx |-> 0, results |-> <<>>, runs |-> 0, srcs |-> <<>>]

\* a directory under .kb/sources right after mkdir: no file in it
EmptyDir == [manifest |-> <<>>, chunks |-> <<>>]

\* fs.readFile(chunks.jsonl).catch(() => ""), split into records: nothing
\* when the directory or the file is absent
ChunkRecords(srcs, id) ==
  LET dir == srcRoot(id)
  IN  IF dir \in DOMAIN srcs /\ srcs[dir].chunks # <<>> THEN srcs[dir].chunks[1] ELSE <<>>

KbInit ==
  /\ registry = <<>>
  /\ sources = <<>>
  /\ clock = 0
  /\ calls = 0
  /\ proc = [p \in Procs |-> IdleProc]
  /\ reply = NoReply
  /\ lastSync = <<>>
  /\ lastManifest = <<>>
  /\ upd = IdleUpd
  /\ gone = {}

ChunkIdle ==
  /\ chunkInput = <<>>
  /\ fext = MD
  /\ chunked = FALSE
  /\ parts = <<>>

\* ------------------------------------------------------------------------
\* kbSyncSource, one action per stretch between two suspension points
\* ------------------------------------------------------------------------
Finish(p, status, error, source) ==
  proc' = [proc EXCEPT ![p].pc = "done",
                       ![p].result = [status |-> status, error |-> error, source |-> source]]

\* the invocation after its parameter checks, up to the first file-system
\* request; before is history: the registry and the sources when it was called
Started(params) ==
  LET hasLocal == params.localDir # ""
      hasZip   == params.zipUrl # "" \/ params.zipBase64 # ""
      started  == [IdleProc EXCEPT !.params = params,
                                   !.before = <<registry, sources>>,
                                   !.id = IF params.sourceId # <<>> THEN params.sourceId
                                          ELSE <<"k", "b", "-", "s", "o", "u", "r", "c", "e">>]
  IN  IF ~hasLocal /\ ~hasZip
      THEN [started EXCEPT !.pc = "done",
              !.result = [status |-> "error", error |-> "Provide localDir or zipUrl/zipBase64",
                          source |-> <<>>]]
      ELSE IF hasLocal /\ hasZip
      THEN [started EXCEPT !.pc = "done",
              !.result = [status |-> "error",
                          error |-> "Provide only one of localDir or zipUrl/zipBase64",
                          source |-> <<>>]]
      ELSE [started EXCEPT !.pc = IF hasLocal THEN "stat" ELSE "fetch"]

\* the tool call kb_sync_source of caller p
SyncBegin(p, params) ==
  /\ proc[p].pc = "idle"
  /\ upd.pc = "idle"
  /\ calls < MaxCalls
  /\ calls' = calls + 1
  /\ reply' = NoReply
  /\ proc' = [proc EXCEPT ![p] = Started(params)]
  /\ UNCHANGED <<registry, sources, clock, lastSync, lastManifest, otherVars>>

\* SyncStat with the removal of srcRoot done ahead of the directory check
SyncStatRemoving(p) ==
  /\ proc[p].pc = "stat"
  /\ LET absDir == proc[p].params.localDir
     IN  IF absDir \notin LocalDirs \ gone
         THEN /\ Finish(p, "error", "Directory not found", <<>>)
              /\ sources' = Rm(sources, srcRoot(proc[p].id))
         ELSE /\ proc' = [proc EXCEPT ![p].pc = "rm",
                                      ![p].absDir = absDir,
                                      ![p].id = IF proc[p].params.sourceId = <<>>
                                                THEN sanitizeId(basename(absDir))
                                                ELSE proc[p].params.sourceId]
              /\ UNCHANGED sources
  /\ UNCHANGED <<registry, clock, calls, reply, lastSync, lastManifest, otherVars>>

\* fs.stat(absDir) and the source id of a local directory
SyncStat(p) ==
  /\ proc[p].pc = "stat"
  /\ LET absDir == proc[p].params.localDir
     IN  IF absDir \notin LocalDirs \ gone
         THEN Finish(p, "error", "Directory not found", <<>>)
         ELSE proc' = [proc EXCEPT ![p].pc = "rm",
                                   ![p].absDir = absDir,
                                   ![p].id = IF proc[p].params.sourceId = <<>>
                                             THEN sanitizeId(basename(absDir))
                                             ELSE proc[p].params.sourceId]
  /\ UNCHANGED <<registry, sources, clock, calls, reply, lastSync, lastManifest, otherVars>>

\* the archive buffer (decoded, or fetched) and the source id of an archive
SyncFetch(p) ==
  /\ proc[p].pc = "fetch"
  /\ LET ps == proc[p].params
         r  == IF ps.zipBase64 # "" THEN [ok |-> TRUE, buf |-> ps.zipBase64]
               ELSE fetchWithAuth(ps.zipUrl)
     IN  IF ~r.ok
         THEN Finish(p, "thrown", "Failed to fetch ZIP", <<>>)
         ELSE proc' = [proc EXCEPT ![p].pc = "rm",
                                   ![p].buf = r.buf,
                                   ![p].id = IF ps.sourceId = <<>>
                                             THEN (IF ps.zipUrl # "" THEN zipUrlBase(ps.zipUrl)
                                                   ELSE <<"z", "i", "p">>)
                                                  \o <<"-">> \o sha8(r.buf)
                                             ELSE ps.sourceId]
  /\ UNCHANGED <<registry, sources, clock, calls, reply, lastSync, lastManifest, otherVars>>

\* fs.rm(srcRoot, { recursive: true, force: true })
SyncRm(p) ==
  /\ proc[p].pc = "rm"
  /\ sources' = Rm(sources, srcRoot(proc[p].id))
  /\ proc' = [proc EXCEPT ![p].pc = "mkdir",
                          ![p].prevRecs = ChunkRecords(sources, proc[p].id)]
  /\ UNCHANGED <<registry, clock, calls, reply, lastSync, lastManifest, otherVars>>

\* ensureDir(srcRoot): a directory that exists is left as it is (the
\* directories mkdir makes above srcRoot are not listed)
SyncMkdir(p) ==
  /\ proc[p].pc = "mkdir"
  /\ sources' = [x \in DOMAIN sources \cup {srcRoot(proc[p].id)} |->
                   IF x \in DOMAIN sources THEN sources[x] ELSE EmptyDir]
  /\ proc' = [proc EXCEPT ![p].pc = IF proc[p].params.localDir # "" THEN "walk" ELSE "load"]
  /\ UNCHANGED <<registry, clock, calls, reply, lastSync, lastManifest, otherVars>>

\* files.filter(...) of the local branch
FilterFiles(files, includeExts) ==
  SelectSeq(files, LAMBDA f : includes(includeExts, toLowerCase(extname(f))) /\ isTextFile(extname(f)))

\* typeof maxFiles === "number" ? list.slice(0, maxFiles) : list
Limit(list, maxFiles) == IF maxFiles # 0 THEN slice0(list, maxFiles) ELSE list

\* walkDir(absDir), the extension filter and the file cap
SyncWalk(p) ==
  /\ proc[p].pc = "walk"
  /\ LET w == walkDir(proc[p].absDir)
     IN  IF ~w.ok
         THEN Finish(p, "thrown", "readdir failed", <<>>)
         ELSE LET limited == Limit(FilterFiles(w.files, proc[p].params.includeExts),
                                   proc[p].params.maxFiles)
              IN  proc' = [proc EXCEPT ![p].pc = IF limited = <<>> THEN "wman" ELSE "read",
                                        ![p].files = limited,
                                        ![p].idx = 1]
  /\ UNCHANGED <<registry, sources, clock, calls, reply, lastSync, lastManifest, otherVars>>

\* one turn of the loop over the files: read, chunk, push; a file that cannot
\* be read is skipped
SyncReadFile(p) ==
  /\ proc[p].pc = "read"
  /\ LET rel  == proc[p].files[proc[p].idx]
         ext  == toLowerCase(extname(rel))
         r    == readFile(proc[p].absDir, rel)
         last == proc[p].idx = Len(proc[p].files)
     IN  proc' = [proc EXCEPT
           ![p].chunksOut = IF r.ok THEN @ \o FileRecords(proc[p].id, rel, ext, r.text) ELSE @,
           ![p].fileCount = IF r.ok THEN @ + 1 ELSE @,
           ![p].idx = @ + 1,
           ![p].pc = IF last THEN "wman" ELSE "read"]
  /\ UNCHANGED <<registry, sources, clock, calls, reply, lastSync, lastManifest, otherVars>>

\* JSZip.loadAsync(buf) and the cap on the entry names
SyncLoad(p) ==
  /\ proc[p].pc = "load"
  /\ LET z == loadAsync(proc[p].buf)
     IN  IF ~z.ok
         THEN Finish(p, "thrown", "not a zip file", <<>>)
         ELSE LET limitedNames == Limit(z.entries, proc[p].params.maxFiles)
              IN  proc' = [proc EXCEPT ![p].pc = IF limitedNames = <<>> THEN "wman" ELSE "entry",
                                        ![p].files = limitedNames,
                                        ![p].idx = 1]
  /\ UNCHANGED <<registry, sources, clock, calls, reply, lastSync, lastManifest, otherVars>>

\* the relative path of an archive entry
EntryRel(name, zipPathPrefix) ==
  IF zipPathPrefix # <<>> /\ startsWith(name, zipPathPrefix)
  THEN StripSlashes(SubSeq(name, Len(zipPathPrefix) + 1, Len(name)))
  ELSE name

\* one turn of the loop over the archive entries
SyncEntry(p) ==
  /\ proc[p].pc = "entry"
  /\ LET entry == proc[p].files[proc[p].idx]
         rel   == EntryRel(entry.name, proc[p].params.zipPathPrefix)
         ext   == toLowerCase(extname(rel))
         take  == /\ ~entry.dir
                  /\ includes(proc[p].params.includeExts, ext) /\ isTextFile(ext)
                  /\ entry.readable
         last  == proc[p].idx = Len(proc[p].files)
     IN  proc' = [proc EXCEPT
           ![p].chunksOut = IF take THEN @ \o FileRecords(proc[p].id, rel, ext, entry.text) ELSE @,
           ![p].fileCount = IF take THEN @ + 1 ELSE @,
           ![p].idx = @ + 1,
           ![p].pc = IF last THEN "wman" ELSE "entry"]
  /\ UNCHANGED <<registry, sources, clock, calls, reply, lastSync, lastManifest, otherVars>>

\* the manifest object of the invocation
Manifest(pr, now) ==
  LET ps == pr.params
      isLocal == ps.localDir # ""
  IN  [id            |-> pr.id,
       type          |-> IF isLocal THEN "local_dir" ELSE "zip",
       rootPath      |-> IF isLocal THEN pr.absDir ELSE Undefined,
       zipUrl        |-> IF isLocal THEN Undefined ELSE IF ps.zipUrl # "" THEN ps.zipUrl ELSE Null,
       zipHash       |-> IF isLocal THEN <<>> ELSE sha256(pr.buf),
       zipPathPrefix |-> IF isLocal THEN <<>> ELSE ps.zipPathPrefix,
       tags          |-> ps.tags,
       updatedAt     |-> now,
       fileCount     |-> pr.fileCount,
       chunkCount    |-> Len(pr.chunksOut)]

\* manifest = {...}; fs.writeFile(manifest.json): throws when srcRoot is gone
SyncWriteManifest(p) ==
  /\ proc[p].pc = "wman"
  /\ clock' = clock + 1
  /\ LET m == Manifest(proc[p], clock)
     IN  IF srcRoot(proc[p].id) \notin DOMAIN sources
         THEN /\ Finish(p, "thrown", "ENOENT", <<>>)
              /\ UNCHANGED sources
         ELSE /\ sources' = [sources EXCEPT ![srcRoot(proc[p].id)].manifest = <<m>>]
              /\ proc' = [proc EXCEPT ![p].pc = "wchunks", ![p].manifest = <<m>>]
  /\ UNCHANGED <<registry, calls, reply, lastSync, lastManifest, otherVars>>

\* fs.writeFile(chunks.jsonl): the whole file is replaced
WriteChunks(dir, chunksOut) == [dir EXCEPT !.chunks = <<chunksOut>>]

\* SyncWriteChunks done as an incremental merge: the records persisted before
\* the call are kept in front of the new ones
SyncWriteChunksMerged(p) ==
  /\ proc[p].pc = "wchunks"
  /\ IF srcRoot(proc[p].id) \notin DOMAIN sources
     THEN /\ Finish(p, "thrown", "ENOENT", <<>>)
          /\ UNCHANGED sources
     ELSE /\ sources' = [sources EXCEPT ![srcRoot(proc[p].id)] =
                           WriteChunks(@, proc[p].prevRecs \o proc[p].chunksOut)]
          /\ proc' = [proc EXCEPT ![p].pc = "rreg"]
  /\ UNCHANGED <<registry, clock, calls, reply, lastSync, lastManifest, otherVars>>

SyncWriteChunks(p) ==
  /\ proc[p].pc = "wchunks"
  /\ IF srcRoot(proc[p].id) \notin DOMAIN sources
     THEN /\ Finish(p, "thrown", "ENOENT", <<>>)
          /\ UNCHANGED sources
     ELSE /\ sources' = [sources EXCEPT ![srcRoot(proc[p].id)] = WriteChunks(@, proc[p].chunksOut)]
          /\ proc' = [proc EXCEPT ![p].pc = "rreg"]
  /\ UNCHANGED <<registry, clock, calls, reply, lastSync, lastManifest, otherVars>>

\* registry = JSON.parse(await fs.readFile(regPath))
SyncReadRegistry(p) ==
  /\ proc[p].pc = "rreg"
  /\ proc' = [proc EXCEPT ![p].pc = "wreg", ![p].regRead = registry]
  /\ UNCHANGED <<registry, sources, clock, calls, reply, lastSync, lastManifest, otherVars>>

\* ReplaceEntry done as a merge: the earlier entry of the id is kept
ReplaceEntryMerged(reg, id, manifest) == Append(reg, manifest)

\* registry.filter((r) => r.id !== id) followed by push(manifest)
ReplaceEntry(reg, id, manifest) ==
  Append(SelectSeq(reg, LAMBDA r : r.id # id), manifest)

\* the chunk ids persisted for a source
ChunkIds(srcs, id) == {r.id : r \in Range(ChunkRecords(srcs, id))}

\* fs.writeFile(regPath, others) and the return of the manifest
SyncWriteRegistry(p) ==
  /\ proc[p].pc = "wreg"
  /\ registry' = ReplaceEntry(proc[p].regRead, proc[p].id, proc[p].manifest[1])
  /\ LET ps  == proc[p].params
         ids == ChunkIds(sources, proc[p].id)
     IN  /\ proc' = [proc EXCEPT
                ![p].pc = "done",
                ![p].result = [status |-> "ok", error |-> "", source |-> proc[p].manifest],
                ![p].again = ps \in DOMAIN lastSync,
                ![p].prevIds = IF ps \in DOMAIN lastSync THEN lastSync[ps] ELSE {}]
         /\ lastSync' = [x \in DOMAIN lastSync \cup {ps} |-> IF x = ps THEN ids ELSE lastSync[x]]
         /\ lastManifest' = [x \in DOMAIN lastManifest \cup {proc[p].id} |->
                               IF x = proc[p].id THEN proc[p].manifest[1] ELSE lastManifest[x]]
  /\ UNCHANGED <<sources, clock, calls, reply, otherVars>>

\* the caller has taken the result (a result kbUpdateAll awaits goes to it)
SyncReturn(p) ==
  /\ proc[p].pc = "done"
  /\ upd.pc # "wait"
  /\ proc' = [proc EXCEPT ![p] = IdleProc]
  /\ UNCHANGED <<registry, sources, clock, calls, reply, lastSync, lastManifest, otherVars>>

\* a step of the invocation of caller p
SyncStep(p) ==
  \/ SyncStat(p)
  \/ SyncFetch(p)
  \/ SyncRm(p)
  \/ SyncMkdir(p)
  \/ SyncWalk(p)
  \/ SyncReadFile(p)
  \/ SyncLoad(p)
  \/ SyncEntry(p)
  \/ SyncWriteManifest(p)
  \/ SyncWriteChunks(p)
  \/ SyncReadRegistry(p)
  \/ SyncWriteRegistry(p)
  \/ SyncReturn(p)

\* ------------------------------------------------------------------------
\* kbSearch
\* ------------------------------------------------------------------------
\* kbSearchSchema: the default and the maximum of topK
DefaultTopK == 10
MaxTopK == 50
\* length of a result's snippet
SnippetLen == 400

\* a kbSearch parameter object; topK is <<>> when omitted, else <<n>>
SearchParams(q, topK, sourceIds, pathPrefix) ==
  [q |-> q, topK |-> topK, sourceIds |-> sourceIds, pathPrefix |-> pathPrefix]

Q_ab == <<"a", "b">>
Q_AB_a == <<"A", "B", " ", " ", "a">>
Q_aa == <<"a", "a">>
Q_a == <<"a">>
Q_zz == <<"z">>
Q_ab_ab == <<"a", "b", " ", "a", "b">>

Queries == {Q_ab, Q_AB_a, Q_aa, Q_a, Q_zz, Q_ab_ab, <<>>}

SearchParamSet ==
  { SearchParams(q, k, <<>>, <<>>) : q \in Queries, k \in {<<>>, <<2>>} }
    \cup { SearchParams(Q_a, k, <<>>, <<>>) : k \in {<<0>>, <<1>>, <<MaxTopK>>, <<MaxTopK + 1>>} }
    \cup { SearchParams(Q_ab, <<>>, <<S1>>, <<>>),
           SearchParams(Q_ab, <<>>, <<>>, <<"s", "/">>),
           SearchParams(Q_a, <<1>>, <<S2>>, <<>>) }

\* kbSearchSchema.parse accepts topK: omitted, or a positive integer up to 50
TopKValid(topK) == topK = <<>> \/ (topK[1] > 0 /\ topK[1] <= MaxTopK)

\* the value of topK after parsing
TopKOf(topK) == IF topK = <<>> THEN DefaultTopK ELSE topK[1]

RECURSIVE Tokens(_, _, _)
\* the non-empty pieces of s[i..] between runs of white space; cur is the
\* piece being read
Tokens(s, i, cur) ==
  IF i > Len(s) THEN (IF cur = <<>> THEN <<>> ELSE <<cur>>)
  ELSE IF s[i] \in WS
       THEN (IF cur = <<>> THEN <<>> ELSE <<cur>>) \o Tokens(s, i + 1, <<>>)
       ELSE Tokens(s, i + 1, Append(cur, s[i]))

\* q.toLowerCase().split(/\s+/).filter(Boolean)
Terms(q) == Tokens(toLowerCase(q), 1, <<>>)

RECURSIVE SplitCountOverlapping(_, _, _)
\* SplitCount with overlapping occurrences counted too
SplitCountOverlapping(lower, t, i) ==
  IF i + Len(t) - 1 > Len(lower) THEN 0
  ELSE IF SubSeq(lower, i, i + Len(t) - 1) = t
       THEN 1 + SplitCountOverlapping(lower, t, i + 1)
       ELSE SplitCountOverlapping(lower, t, i + 1)

RECURSIVE SplitCount(_, _, _)
\* lower.split(t).length - 1 for the part of lower from index i on: the
\* separator is looked for from left to right, each search starting after
\* the previous match
SplitCount(lower, t, i) ==
  IF i + Len(t) - 1 > Len(lower) THEN 0
  ELSE IF SubSeq(lower, i, i + Len(t) - 1) = t
       THEN 1 + SplitCount(lower, t, i + Len(t))
       ELSE SplitCount(lower, t, i + 1)

RECURSIVE ScoreFrom(_, _, _)
\* the loop over the terms
ScoreFrom(lower, terms, k) ==
  IF k > Len(terms) THEN 0
  ELSE SplitCount(lower, terms[k], 1) + ScoreFrom(lower, terms, k + 1)

Score(text, terms) == ScoreFrom(toLowerCase(text), terms, 1)

Hit(rec, score) ==
  [score |-> score, chunkId |-> rec.id, sourceId |-> rec.sourceId, path |-> rec.path,
   startLine |-> rec.startLine, endLine |-> rec.endLine,
   snippet |-> slice0(rec.text, SnippetLen)]

\* the sources searched: the registry entries, restricted to sourceIds if any
Targets(reg, sourceIds) ==
  IF sourceIds # <<>> THEN SelectSeq(reg, LAMBDA r : includes(sourceIds, r.id)) ELSE reg

\* the hits of one source, in the order of its chunks.jsonl
SourceHits(recs, terms, pathPrefix) ==
  LET kept == SelectSeq(recs, LAMBDA rec :
                 /\ (pathPrefix = <<>> \/ startsWith(rec.path, pathPrefix))
                 /\ Score(rec.text, terms) > 0)
  IN  [k \in 1..Len(kept) |-> Hit(kept[k], Score(kept[k].text, terms))]

\* Before with the comparator's operands exchanged: ascending scores
BeforeAscending(a, b) == a.score < b.score

\* the score order of the comparator (a, b) => b.score - a.score
Before(a, b) == a.score > b.score

RECURSIVE InsertHit(_, _)
\* h put into the sorted sequence behind every element it does not precede
InsertHit(sorted, h) ==
  IF sorted = <<>> THEN <<h>>
  ELSE IF Before(h, sorted[1]) THEN <<h>> \o sorted
  ELSE <<sorted[1]>> \o InsertHit(SubSeq(sorted, 2, Len(sorted)), h)

RECURSIVE SortHits(_, _)
\* hits.sort(...): Array.prototype.sort is stable
SortHits(hits, n) ==
  IF n = 0 THEN <<>> ELSE InsertHit(SortHits(hits, n - 1), hits[n])

\* the hits before sorting: the loop over the targets and their chunks
AllHits(reg, srcs, sp) ==
  LET targets == Targets(reg, sp.sourceIds)
      terms   == Terms(sp.q)
  IN  Flatten([k \in 1..Len(targets) |->
                 SourceHits(ChunkRecords(srcs, targets[k].id), terms, sp.pathPrefix)], 1)

\* TopResults without the cap
TopResultsUncapped(hits, topK) == hits

\* hits.slice(0, topK)
TopResults(hits, topK) == slice0(hits, topK)

kbSearch(reg, srcs, sp) ==
  IF ~TopKValid(sp.topK)
  THEN [op |-> "search", status |-> "thrown", params |-> sp, total |-> 0,
        results |-> <<>>, hits |-> <<>>]
  ELSE LET unsorted == AllHits(reg, srcs, sp)
           hits     == SortHits(unsorted, Len(unsorted))
       IN  [op |-> "search", status |-> "ok", params |-> sp, total |-> Len(hits),
            results |-> TopResults(hits, TopKOf(sp.topK)), hits |-> hits]

\* the tool call kb_search, made while no ingestion is running. It changes
\* nothing in the store, so one such call per store state shows all there is.
KbSearch(sp) ==
  /\ proc[1].pc = "idle"
  /\ upd.pc = "idle"
  /\ reply.op = "none"
  /\ reply' = kbSearch(registry, sources, sp)
  /\ UNCHANGED <<registry, sources, clock, calls, proc, lastSync, lastManifest, otherVars>>

\* ------------------------------------------------------------------------
\* kbGet
\* ------------------------------------------------------------------------
GetParams(chunkId, sourceId, path) == [chunkId |-> chunkId, sourceId |-> sourceId, path |-> path]

\* chunk ids a caller may have seen in earlier results
KnownChunkIds ==
  {r.id : r \in Range(FileRecords(S1, A_MD, MD, TextA))}
    \cup {r.id : r \in Range(FileRecords(S1, A_MD, MD, TextB))}
    \cup {r.id : r \in Range(FileRecords(S2, A_MD, MD, TextB))}
    \cup {sha256(<<>>)}

GetParamSet ==
  { GetParams(c, <<>>, <<>>) : c \in KnownChunkIds }
    \cup { GetParams(<<>>, S1, A_MD), GetParams(<<>>, S1, X_MD), GetParams(<<>>, S2, A_MD),
           GetParams(<<>>, S2, N_TXT), GetParams(<<>>, S1, <<>>) }

\* fs.stat(absFile).isFile(), absFile = path.join(rootPath, rel)
IsFile(rootPath, rel) ==
  /\ rootPath \notin gone
  /\ \E d \in {<<>>, <<"s">>} :
       LET rd == readdir(rootPath, d)
       IN  rd.ok /\ \E k \in 1..Len(rd.entries) :
                       rd.entries[k].kind = "file" /\ joinPath(d, rd.entries[k].name) = rel

\* findChunk over the registry's sources, in registry order: the records
\* with the id looked for
FoundChunks(reg, srcs, chunkId) ==
  Flatten([k \in 1..Len(reg) |->
             SelectSeq(ChunkRecords(srcs, reg[k].id), LAMBDA rec : rec.id = chunkId)], 1)

kbGet(reg, srcs, gp) ==
  IF gp.chunkId # <<>>
  THEN LET found == FoundChunks(reg, srcs, gp.chunkId)
       IN  IF found # <<>>
           THEN [op |-> "get", status |-> "ok", params |-> gp, rec |-> <<found[1]>>, text |-> <<>>]
           ELSE [op |-> "get", status |-> "error", params |-> gp, rec |-> <<>>, text |-> <<>>]
  ELSE IF gp.sourceId # <<>> /\ gp.path # <<>>
  THEN LET srcsFound == SelectSeq(reg, LAMBDA r : r.id = gp.sourceId)
       IN  IF srcsFound = <<>>
           THEN [op |-> "get", status |-> "error", params |-> gp, rec |-> <<>>, text |-> <<>>]
           ELSE IF srcsFound[1].rootPath = Undefined
           THEN \* path.join(undefined, relPath) throws a TypeError
                [op |-> "get", status |-> "thrown", params |-> gp, rec |-> <<>>, text |-> <<>>]
           ELSE IF ~IsFile(srcsFound[1].rootPath, gp.path)
           THEN [op |-> "get", status |-> "error", params |-> gp, rec |-> <<>>, text |-> <<>>]
           ELSE LET r == readFile(srcsFound[1].rootPath, gp.path)
                IN  IF r.ok
                    THEN [op |-> "get", status |-> "ok", params |-> gp, rec |-> <<>>,
                          text |-> r.text]
                    ELSE [op |-> "get", status |-> "thrown", params |-> gp, rec |-> <<>>,
                          text |-> <<>>]
  ELSE [op |-> "get", status |-> "error", params |-> gp, rec |-> <<>>, text |-> <<>>]

\* the tool call kb_get, made while no ingestion is running. It changes
\* nothing in the store, so one such call per store state shows all there is.
KbGet(gp) ==
  /\ proc[1].pc = "idle"
  /\ upd.pc = "idle"
  /\ reply.op = "none"
  /\ reply' = kbGet(registry, sources, gp)
  /\ UNCHANGED <<registry, sources, clock, calls, proc, lastSync, lastManifest, otherVars>>

\* ------------------------------------------------------------------------
\* kbStatus
\* ------------------------------------------------------------------------
\* chunkText.split(/\n/).filter(Boolean).length of a source: chunks.jsonl
\* holds one non-empty line per record, and nothing when absent or empty
StatusCount(srcs, id) == Len(ChunkRecords(srcs, id))

kbStatus(reg, srcs) ==
  [op |-> "status",
   sources |-> [k \in 1..Len(reg) |->
                  [id |-> reg[k].id, tags |-> reg[k].tags, updatedAt |-> reg[k].updatedAt,
                   fileCount |-> reg[k].fileCount, chunkCount |-> StatusCount(srcs, reg[k].id)]]]

\* the tool call kb_status, made while no other tool call is running
KbStatus ==
  /\ proc[1].pc = "idle"
  /\ upd.pc = "idle"
  /\ reply.op = "none"
  /\ reply' = kbStatus(registry, sources)
  /\ UNCHANGED <<registry, sources, clock, calls, proc, lastSync, lastManifest, otherVars>>

\* ------------------------------------------------------------------------
\* kbUpdateAll, made by caller 1 while no other tool call is running; its
\* kbSyncSource invocations run as caller 1's
\* ------------------------------------------------------------------------
\* the parameter object kbUpdateAll hands to kbSyncSource for a registry entry
UpdParams(src) ==
  IF src.type = "local_dir"
  THEN SyncParams(src.id, src.rootPath, "", "", <<>>, DefaultExts, src.tags, 0)
  ELSE SyncParams(src.id, "", src.zipUrl, "", src.zipPathPrefix, DefaultExts, src.tags, 0)

\* src.type === "local_dir" && src.rootPath, or src.type === "zip" && src.zipUrl
Reingestable(src) ==
  \/ src.type = "local_dir" /\ src.rootPath \notin {Undefined, Null, ""}
  \/ src.type = "zip" /\ src.zipUrl \notin {Undefined, Null, ""}

\* an element of results; sync is history: how the kbSyncSource invocation
\* made for the entry ended ("none" when none was made)
UpdResult(src, ok, error, sync) ==
  [id |-> src.id, type |-> src.type, ok |-> ok, error |-> error, sync |-> sync]

\* the call: the registry is read once
UpdBegin ==
  /\ upd.pc = "idle"
  /\ proc[1].pc = "idle"
  /\ upd.runs < MaxUpdates
  /\ upd' = [pc |-> "loop", reg |-> registry, idx |-> 1, results |-> <<>>, runs |-> upd.runs + 1,
             srcs |-> sources]
  /\ reply' = NoReply
  /\ UNCHANGED <<registry, sources, clock, calls, proc, lastSync, lastManifest, gone, rpcVars, chunkVars>>

\* a turn of the loop, up to the await of kbSyncSource
UpdCall ==
  /\ upd.pc = "loop"
  /\ upd.idx <= Len(upd.reg)
  /\ LET src == upd.reg[upd.idx]
     IN  IF Reingestable(src)
         THEN /\ proc' = [proc EXCEPT ![1] = Started(UpdParams(src))]
              /\ upd' = [upd EXCEPT !.pc = "wait"]
         ELSE /\ upd' = [upd EXCEPT
                     !.results = Append(@, UpdResult(src, FALSE,
                                    "Unsupported source type or missing fields", "none")),
                     !.idx = @ + 1]
              /\ UNCHANGED proc
  /\ UNCHANGED <<registry, sources, clock, calls, reply, lastSync, lastManifest, gone, rpcVars, chunkVars>>

\* kbSyncSource has settled: a value it returns is dropped and ok: true is
\* pushed, an error it throws is caught and pushed with ok: false
UpdCollectAborting ==
  /\ upd.pc = "wait"
  /\ proc[1].pc = "done"
  /\ LET src == upd.reg[upd.idx]
         st  == proc[1].result.status
     IN  upd' = [upd EXCEPT
           !.results = Append(@, IF st = "thrown"
                                 THEN UpdResult(src, FALSE, proc[1].result.error, st)
                                 ELSE UpdResult(src, TRUE, "", st)),
           !.idx = IF st = "thrown" THEN Len(upd.reg) + 1 ELSE @ + 1,
           !.pc = "loop"]
  /\ proc' = [proc EXCEPT ![1] = IdleProc]
  /\ UNCHANGED <<registry, sources, clock, calls, reply, lastSync, lastManifest, gone, rpcVars, chunkVars>>

UpdCollect ==
  /\ upd.pc = "wait"
  /\ proc[1].pc = "done"
  /\ LET src == upd.reg[upd.idx]
         st  == proc[1].result.status
     IN  upd' = [upd EXCEPT
           !.results = Append(@, IF st = "thrown"
                                 THEN UpdResult(src, FALSE, proc[1].result.error, st)
                                 ELSE UpdResult(src, TRUE, "", st)),
           !.idx = @ + 1,
           !.pc = "loop"]
  /\ proc' = [proc EXCEPT ![1] = IdleProc]
  /\ UNCHANGED <<registry, sources, clock, calls, reply, lastSync, lastManifest, gone, rpcVars, chunkVars>>

\* return { count: results.length, results }
UpdReturn ==
  /\ upd.pc = "loop"
  /\ upd.idx > Len(upd.reg)
  /\ upd' = [upd EXCEPT !.pc = "done"]
  /\ UNCHANGED <<registry, sources, clock, calls, proc, reply, lastSync, lastManifest, gone,
                 rpcVars, chunkVars>>

\* the caller has taken the result
UpdAck ==
  /\ upd.pc = "done"
  /\ upd' = [IdleUpd EXCEPT !.runs = upd.runs]
  /\ UNCHANGED <<registry, sources, clock, calls, proc, reply, lastSync, lastManifest, gone,
                 rpcVars, chunkVars>>

\* ------------------------------------------------------------------------
\* The world changes between two tool calls: a root ceases to exist
\* ------------------------------------------------------------------------
\* the roots that may cease to exist
Removable == {"/w/s1", "http://h/r.zip"}

Unlink(root) ==
  /\ proc[1].pc = "idle"
  /\ upd.pc = "idle"
  /\ root \notin gone
  /\ gone' = gone \cup {root}
  /\ reply' = NoReply
  /\ UNCHANGED <<registry, sources, clock, calls, proc, lastSync, lastManifest, upd, rpcVars, chunkVars>>

\* ------------------------------------------------------------------------
\* Chain configuration and the public-client cache (chains.ts, clients.ts)
\* ------------------------------------------------------------------------
\* Object.keys(CHAINS)
CHAINS == {"plasma"}

\* the chain ids a caller may pass
ChainIds == {"plasma", "ethereum"}

\* most direct calls of getPublicClient in one behaviour
MaxGets == 3

\* getChain(chainId): ok = FALSE when it throws "Chain ... not supported"
getChain(chainId) ==
  IF chainId \in CHAINS THEN [ok |-> TRUE, rpc |-> "https://qn.plasma-mainnet/"]
  ELSE [ok |-> FALSE, rpc |-> ""]

\* getPublicClient without the look-up in the cache: every call creates
getPublicClientUncached(cache, made, chainId) ==
  IF ~getChain(chainId).ok
  THEN [thrown |-> TRUE, client |-> 0, cache |-> cache, made |-> made]
  ELSE LET client == Len(made) + 1
       IN  [thrown |-> FALSE, client |-> client,
            cache |-> [c \in DOMAIN cache \cup {chainId} |->
                         IF c = chainId THEN client ELSE cache[c]],
            made |-> Append(made, chainId)]

\* getPublicClient(chainId) on the cache; made lists the chain ids of the
\* clients createPublicClient has built, a client being its position in made
getPublicClient(cache, made, chainId) ==
  IF chainId \in DOMAIN cache
  THEN [thrown |-> FALSE, client |-> cache[chainId], cache |-> cache, made |-> made]
  ELSE IF ~getChain(chainId).ok
  THEN [thrown |-> TRUE, client |-> 0, cache |-> cache, made |-> made]
  ELSE LET client == Len(made) + 1
       IN  [thrown |-> FALSE, client |-> client,
            cache |-> [c \in DOMAIN cache \cup {chainId} |->
                         IF c = chainId THEN client ELSE cache[c]],
            made |-> Append(made, chainId)]

\* the history after getPublicClient(chainId) gave g: the clients created,
\* the clients returned per chain id, the last call made on its own, the
\* number of such calls and the number of calls answered from the cache
Noted(chainId, g, direct) ==
  [made     |-> g.made,
   returned |-> IF g.thrown THEN clients.returned
                ELSE [clients.returned EXCEPT ![chainId] = @ \cup {g.client}],
   last     |-> IF direct THEN [chainId |-> chainId, thrown |-> g.thrown, client |-> g.client]
                ELSE clients.last,
   gets     |-> IF direct THEN clients.gets + 1 ELSE clients.gets,
   hits     |-> IF ~g.thrown /\ g.made = clients.made THEN clients.hits + 1 ELSE clients.hits]

\* ------------------------------------------------------------------------
\* The chain and explorer tools (tools.ts)
\* ------------------------------------------------------------------------
\* most tool invocations in one behaviour
MaxToolCalls == 2

\* the chain parameter left out
Omitted == "<omitted>"

\* values of the chain parameter
ChainParams == {Omitted, "plasma", "ethereum", "toString"}

\* getBalance, getCode, getGasPrice, getLogs, callContract, getBlockNumber
DualTools == {"getBalance", "getCode", "getGasPrice", "getLogs", "callContract", "getBlockNumber"}

CoreTools == DualTools \cup {"getTransactionByHash"}

\* the tools that make one explorer request, outside any try
FetchTools ==
  {"listRoutescanAddresses", "routescanEtherscanQuery", "routescanGet", "routescanAccountTxList",
   "routescanAccountTxListInternal", "routescanAccountTokenTx", "routescanAccountTokenNftTx",
   "routescanAccountToken1155Tx", "routescanAccountTokenBalance"}

\* the tools whose schema has a chain field
Tools == CoreTools \cup FetchTools \cup {"inspectProxy", "verifyContract", "deployContract"}

\* the chain field without its refinement: any string passes
ParseChainUnrefined(given) ==
  [ok |-> TRUE, chain |-> IF given = Omitted THEN "plasma" ELSE given]

\* the chain field of every schema:
\* z.string().optional().default("plasma").refine(val => Object.keys(CHAINS).includes(val))
ParseChain(given) ==
  LET val == IF given = Omitted THEN "plasma" ELSE given
  IN  [ok |-> val \in CHAINS, chain |-> val]

NoResp == [kind |-> "none", fields |-> {}, has |-> {}, inline |-> {}, seen |-> <<>>]

IdleRpc ==
  [pc |-> "idle", tool |-> "", given |-> Omitted, chain |-> "", sent |-> <<>>, state |-> <<>>,
   waiting |-> {}, resp |-> NoResp, n |-> 0]

RpcInit ==
  /\ rpc = IdleRpc
  /\ clientCache = <<>>
  /\ clients = [made |-> <<>>, returned |-> [c \in ChainIds \cup ChainParams |-> {}],
                last |-> [chainId |-> "", thrown |-> FALSE, client |-> 0], gets |-> 0, hits |-> 0]

\* an outbound request is issued and awaited
Send(r, name) ==
  [r EXCEPT !.sent = Append(@, [name |-> name, chain |-> r.chain]),
            !.state = Append(@, "pending"),
            !.waiting = {Len(r.sent) + 1}]

\* the requests of DualTools with the cross-check sent along with the primary
\* request
FirstRequestsTogether(tool) ==
  CASE tool = "getBalance" -> <<"getBalance", "routescan">>
    [] tool = "getCode" -> <<"getBytecode", "routescan">>
    [] tool = "getGasPrice" -> <<"getGasPrice", "routescan">>
    [] tool = "getLogs" -> <<"getLogs", "routescan">>
    [] tool = "callContract" -> <<"call", "routescan">>
    [] tool = "getBlockNumber" -> <<"getBlockNumber", "routescan">>
    [] tool = "getTransactionByHash" -> <<"getTransaction">>
    [] tool = "inspectProxy" -> <<"getStorageAt", "getStorageAt", "getStorageAt">>
    [] tool = "verifyContract" -> <<"sourcify/verify">>
    [] tool = "deployContract" -> <<"estimateGas">>
    [] OTHER -> <<"routescan">>

\* the requests a tool issues before its first await
FirstRequests(tool) ==
  CASE tool = "getBalance" -> <<"getBalance">>
    [] tool = "getCode" -> <<"getBytecode">>
    [] tool = "getGasPrice" -> <<"getGasPrice">>
    [] tool = "getLogs" -> <<"getLogs">>
    [] tool = "callContract" -> <<"call">>
    [] tool = "getBlockNumber" -> <<"getBlockNumber">>
    [] tool = "getTransactionByHash" -> <<"getTransaction">>
    [] tool = "inspectProxy" -> <<"getStorageAt", "getStorageAt", "getStorageAt">>
    [] tool = "verifyContract" -> <<"sourcify/verify">>
    [] tool = "deployContract" -> <<"estimateGas">>
    [] OTHER -> <<"routescan">>

\* the tool returns a result object; has: the requests whose results are in
\* it, inline: the requests whose failure is an error field of their own part,
\* seen: how the requests stood when it returned
Success(r, fields, has, inline) ==
  [r EXCEPT !.pc = "done", !.waiting = {},
            !.resp = [kind |-> "ok", fields |-> fields, has |-> has, inline |-> inline,
                      seen |-> r.state]]

\* the catch of the tool: return { error: "...: message" }
Failed(r) ==
  [r EXCEPT !.pc = "done", !.waiting = {},
            !.resp = [kind |-> "error", fields |-> {"error"}, has |-> {}, inline |-> {},
                      seen |-> r.state]]

\* the tool rejects: kind "invalid" for the ZodError of parse, "thrown" otherwise
Rejected(r, kind) ==
  [r EXCEPT !.pc = "done", !.waiting = {},
            !.resp = [kind |-> kind, fields |-> {}, has |-> {}, inline |-> {}, seen |-> r.state]]

\* the requests that have returned successfully, and those that have failed
OkSet(r) == {i \in 1..Len(r.state) : r.state[i] = "ok"}
FailSet(r) == {i \in 1..Len(r.state) : r.state[i] = "fail"}

\* the tool goes on after the request or requests it awaited have changed
Resume(r) ==
  LET failed == \E i \in r.waiting : r.state[i] = "fail"
      allOk  == \A i \in r.waiting : r.state[i] = "ok"
      last   == r.sent[Len(r.sent)].name
  IN  CASE r.tool = "inspectProxy" ->
             \* Promise.all: rejects with the first failure, resolves when all have
             IF failed THEN Failed(r)
             ELSE IF allOk
             THEN Success(r, {"isProxy", "implementation", "admin", "beacon"}, OkSet(r), {})
             ELSE r
        [] r.tool \in DualTools ->
             IF last = "routescan"
             THEN Success(r, {"chain", "rpc.endpoint", "routescan"}, OkSet(r), FailSet(r))
             ELSE IF failed THEN Failed(r)
             ELSE IF r.tool = "getBlockNumber" /\ last = "getBlockNumber" THEN Send(r, "getBlock")
             ELSE Send(r, "routescan")
        [] r.tool = "getTransactionByHash" ->
             IF last = "getTransaction"
             THEN IF failed THEN Failed(r) ELSE Send(r, "getTransactionReceipt")
             ELSE IF last = "getTransactionReceipt"
             THEN IF failed THEN Send(r, "routescan")
                  ELSE Success(r, {"chain", "hash", "status", "receipt"}, OkSet(r), {})
             ELSE Success(r, {"chain", "hash", "status", "rpc.endpoint", "routescan"},
                          OkSet(r), FailSet(r) \ {2})
        [] r.tool = "verifyContract" ->
             IF failed THEN Failed(r)
             ELSE IF last = "sourcify/verify" THEN Send(r, "sourcify/check")
             ELSE Success(r, {"backend", "verifyResult", "status"}, OkSet(r), {})
        [] r.tool = "deployContract" ->
             IF last = "estimateGas" THEN Send(r, "sendTransaction")
             ELSE IF failed THEN Failed(r)
             ELSE IF last = "sendTransaction" THEN Send(r, "waitForTransactionReceipt")
             ELSE Success(r, {"txHash", "contractAddress", "status", "gasUsed"}, OkSet(r), {})
        [] OTHER ->
             IF failed THEN Rejected(r, "thrown")
             ELSE Success(r, {"chain", "endpoint", "result"}, OkSet(r), {})

\* a tool is called: the schema's parse, the client and the chain
\* configuration, and the requests up to the first await. keySet: whether
\* DEPLOYER_PRIVATE_KEY holds a key
ToolCall(tool, given, keySet) ==
  /\ rpc.pc = "idle"
  /\ rpc.n < MaxToolCalls
  /\ LET parsed == ParseChain(given)
         r0     == [IdleRpc EXCEPT !.tool = tool, !.given = given, !.chain = parsed.chain,
                                   !.n = rpc.n + 1]
         first  == FirstRequests(tool)
         issued == [r0 EXCEPT !.pc = "await",
                              !.sent = [i \in 1..Len(first) |->
                                          [name |-> first[i], chain |-> parsed.chain]],
                              !.state = [i \in 1..Len(first) |-> "pending"],
                              !.waiting = 1..Len(first)]
     IN  IF ~parsed.ok
         THEN /\ rpc' = Rejected(r0, "invalid")
              /\ UNCHANGED <<clientCache, clients>>
         ELSE IF tool \in CoreTools \cup {"inspectProxy", "deployContract"}
         THEN LET g == getPublicClient(clientCache, clients.made, parsed.chain)
              IN  /\ clientCache' = g.cache
                  /\ clients' = Noted(parsed.chain, g, FALSE)
                  /\ rpc' = IF g.thrown
                            THEN (IF tool = "inspectProxy" THEN Rejected(r0, "thrown")
                                  ELSE Failed(r0))
                            ELSE IF tool = "deployContract" /\ ~keySet THEN Failed(r0)
                            ELSE issued
         ELSE /\ rpc' = IF getChain(parsed.chain).ok THEN issued
                        ELSE IF tool = "verifyContract" THEN Failed(r0)
                        ELSE Rejected(r0, "thrown")
              /\ UNCHANGED <<clientCache, clients>>
  /\ UNCHANGED <<kbVars, chunkVars>>

\* request i returns (ok) or fails; the tool goes on if it awaits it
Settle(i, outcome) ==
  /\ rpc.pc # "idle"
  /\ i \in 1..Len(rpc.state)
  /\ rpc.state[i] = "pending"
  /\ LET r1 == [rpc EXCEPT !.state[i] = outcome]
     IN  rpc' = IF rpc.pc = "await" /\ i \in rpc.waiting THEN Resume(r1) ELSE r1
  /\ UNCHANGED <<clientCache, clients, kbVars, chunkVars>>

\* the caller has taken the result
ToolReturn ==
  /\ rpc.pc = "done"
  /\ rpc' = [IdleRpc EXCEPT !.n = rpc.n]
  /\ UNCHANGED <<clientCache, clients, kbVars, chunkVars>>

\* getPublicClient called on its own
GetPublicClientCall(chainId) ==
  /\ clients.gets < MaxGets
  /\ LET g == getPublicClient(clientCache, clients.made, chainId)
     IN  /\ clientCache' = g.cache
         /\ clients' = Noted(chainId, g, TRUE)
  /\ UNCHANGED <<rpc, kbVars, chunkVars>>

\* ------------------------------------------------------------------------
\* Specifications
\* ------------------------------------------------------------------------
Init == KbInit /\ ChunkIdle /\ RpcInit

\* one caller: every tool invocation runs to completion before the next begins
Next ==
  \/ \E params \in SyncParamSet : SyncBegin(1, params)
  \/ SyncStep(1)
  \/ \E sp \in SearchParamSet : KbSearch(sp)
  \/ \E gp \in GetParamSet : KbGet(gp)

Spec == Init /\ [][Next]_vars

\* several callers: invocations interleave at their suspension points
NextConc ==
  \E p \in Procs :
     \/ \E params \in SyncParamSet : SyncBegin(p, params)
     \/ SyncStep(p)

SpecConc == Init /\ [][NextConc]_vars

\* the parameter objects of the callers where kbUpdateAll is looked at
UpdParamSet ==
  { Local(S1, "/w/s1"),
    [Local(S2, "/w/v 2") EXCEPT !.tags = <<"t">>],
    [Zip64(S2, "B1") EXCEPT !.zipPathPrefix = ZipPrefix],
    ZipUrl(<<>>, "http://h/r.zip"),
    Local(S1, "/w/bad"),
    Local(Dot, "/w/v 2"),
    [Local(<<>>, "/w/s1") EXCEPT !.includeExts = <<MD>>, !.maxFiles = 1] }

\* one caller who ingests sources, re-ingests them all with kbUpdateAll and
\* asks for their status, in a world where roots cease to exist between two
\* calls
NextUpd ==
  \/ \E params \in UpdParamSet : SyncBegin(1, params)
  \/ SyncStep(1)
  \/ UpdBegin
  \/ UpdCall
  \/ UpdCollect
  \/ UpdReturn
  \/ UpdAck
  \/ KbStatus
  \/ \E root \in Removable : Unlink(root)

SpecUpd == Init /\ [][NextUpd]_vars

\* the parameter objects of callers who ingest under one source id
SameIdParamSet ==
  { Local(S1, "/w/v 2"),
    [Zip64(S1, "B1") EXCEPT !.zipPathPrefix = ZipPrefix] }

\* two callers ingesting under the same source id, their invocations
\* interleaving at their suspension points
NextSame ==
  \E p \in {1, 2} :
     \/ \E params \in SameIdParamSet : SyncBegin(p, params)
     \/ SyncStep(p)

SpecSame == Init /\ [][NextSame]_vars

\* the chain and explorer tools, one invocation at a time, and getPublicClient
NextRpc ==
  \/ \E tool \in Tools : \E given \in ChainParams : \E keySet \in BOOLEAN :
        ToolCall(tool, given, keySet)
  \/ \E i \in 1..3 : \E outcome \in {"ok", "fail"} : Settle(i, outcome)
  \/ ToolReturn
  \/ \E chainId \in ChainIds : GetPublicClientCall(chainId)

SpecRpc == Init /\ [][NextRpc]_vars

InitChunk ==
  /\ KbInit
  /\ RpcInit
  /\ chunkInput \in ChunkInputs
  /\ fext \in {MD, TS}
  /\ chunked = FALSE
  /\ parts = <<>>

\* the chunker applied to the file, as kbSyncSource applies it
ChunkerRun ==
  /\ ~chunked
  /\ chunked' = TRUE
  /\ parts' = ChunkFile(fext, chunkInput)
  /\ UNCHANGED <<chunkInput, fext, kbVars, rpcVars>>

\* the result is dropped; the file may be chunked again
ChunkerReset ==
  /\ chunked
  /\ chunked' = FALSE
  /\ parts' = <<>>
  /\ UNCHANGED <<chunkInput, fext, kbVars, rpcVars>>

NextChunk == ChunkerRun \/ ChunkerReset

SpecChunk == InitChunk /\ [][NextChunk]_vars

\* ========================================================================
\* Properties of the Chunker (specification SpecChunk)
\* ========================================================================
\* the lines of the file being chunked
FileLines == SplitLines(chunkInput)

\* line l (1-based) lies within the [startLine, endLine] range of chunk c
Covers(c, l) == c.start + 1 <= l /\ l <= c.end + 1

\* line l lies within the range of some emitted chunk
Covered(l) == \E k \in 1..Len(parts) : Covers(parts[k], l)

\* the line holds a character that is not white space
NonBlank(line) == \E j \in 1..Len(line) : line[j] \notin WS

\* the (start, end) ranges of a chunk sequence
Ranges(chunks) == [k \in 1..Len(chunks) |-> <<chunks[k].start, chunks[k].end>>]

C4_CodeCoverage ==
  (chunked /\ fext # MD) =>
     LET N == Len(FileLines)
     IN  /\ Len(parts) >= 1
         /\ parts[1].start + 1 = 1
         /\ parts[Len(parts)].end + 1 = N
         /\ \A k \in 2..Len(parts) : parts[k].start <= parts[k - 1].end + 1
         /\ \A k \in 1..Len(parts) :
               1 <= parts[k].start + 1 /\ parts[k].start <= parts[k].end /\ parts[k].end + 1 <= N
         /\ \A l \in 1..N : Covered(l)

\* C4 witness: a code file longer than two windows has been chunked
C4_Witness ==
  chunked /\ fext # MD /\ Len(FileLines) > 2 * windowSize /\ Len(parts) >= 3

\* C5 as stated: a 400-line code file is chunked into exactly 3 chunks, the
\* last one clipped at line 400.
C5_ThreeChunks ==
  (chunked /\ fext # MD /\ Len(FileLines) = 400) =>
     (Len(parts) = 3 /\ parts[Len(parts)].end + 1 = 400)

\* C5 amended: a 400-line code file is chunked into exactly 4 chunks (lines
\* 1-150, 121-270, 241-390, 361-400), the last one clipped at line 400.
C5_FourChunks ==
  (chunked /\ fext # MD /\ Len(FileLines) = 400) =>
     Ranges(parts) = << <<0, 149>>, <<120, 269>>, <<240, 389>>, <<360, 399>> >>

\* C5 witness: a 400-line code file has been chunked
C5_Witness == chunked /\ fext # MD /\ Len(FileLines) = 400 /\ Len(parts) > 0

\* C6 as stated: a .md file without any heading line gets the same chunk
\* line ranges as fixed-size windowing (150 lines, 30 lines of overlap).
C6_HeadingFreeIsWindowed ==
  (chunked /\ fext = MD) =>
     LET lines == FileLines
     IN  (\A l \in 1..Len(lines) : ~IsHeading(lines[l])) =>
            Ranges(parts) = Ranges(chunkCode(chunkInput))

\* ========================================================================
\* Properties of the Indexer (specifications Spec and SpecConc)
\* ========================================================================
\* caller p's invocation has returned { ok: true, source: manifest }
Completed(p) == proc[p].pc = "done" /\ proc[p].result.status = "ok"

\* the ids of the chunks that were persisted for the id before the invocation
\* of caller p removed them, and that its own content did not produce again
StaleIds(p) ==
  {r.id : r \in Range(proc[p].prevRecs)} \ {r.id : r \in Range(proc[p].chunksOut)}

\* C1: once a re-ingestion of source id S has completed (calls run one after
\* the other), the chunks persisted for S are exactly those produced from the
\* new content, and no chunk that came only from the earlier content is
\* returned by kbSearch or by kbGet with its chunk id.
C1_DestructiveReingestion ==
  Completed(1) =>
     /\ ChunkRecords(sources, proc[1].id) = proc[1].chunksOut
     /\ \A c \in StaleIds(1) :
          kbGet(registry, sources, GetParams(c, <<>>, <<>>)).status = "error"
     /\ \A sp \in SearchParamSet :
          \A h \in Range(kbSearch(registry, sources, sp).results) : h.chunkId \notin StaleIds(1)

\* C1 witness: a re-ingestion has completed, chunks of the earlier content
\* are gone and chunks of the new content are persisted
C1_Witness ==
  /\ Completed(1)
  /\ StaleIds(1) # {}
  /\ proc[1].chunksOut # <<>>

\* C2 as stated: when two invocations with different source ids have both
\* completed successfully, the registry holds an entry for both ids and each
\* id's persisted chunks are those its own invocation produced.
C2_DifferentIdsBothRegistered ==
  \A p \in Procs : \A q \in Procs \ {p} :
     (Completed(p) /\ Completed(q) /\ proc[p].id # proc[q].id) =>
        /\ \E k \in 1..Len(registry) : registry[k].id = proc[p].id
        /\ ChunkRecords(sources, proc[p].id) = proc[p].chunksOut

C11_RegistryReplacement ==
  /\ \A i \in 1..Len(registry) : \A j \in 1..Len(registry) :
        registry[i].id = registry[j].id => i = j
  /\ \A k \in 1..Len(registry) :
        /\ registry[k].id \in DOMAIN lastManifest
        /\ registry[k] = lastManifest[registry[k].id]

\* C11 witness: an ingestion has completed for an id that the registry, one
\* of two entries, listed with an earlier manifest
C11_Witness ==
  /\ Completed(1)
  /\ Len(registry) = 2
  /\ \E k \in 1..Len(proc[1].regRead) :
        /\ proc[1].regRead[k].id = proc[1].id
        /\ proc[1].regRead[k].updatedAt # proc[1].manifest[1].updatedAt

\* the root given is both a directory and an archive, or neither, or a
\* directory that does not exist
BadRoot(ps) ==
  LET hasLocal == ps.localDir # ""
      hasZip   == ps.zipUrl # "" \/ ps.zipBase64 # ""
  IN  \/ hasLocal /\ hasZip
      \/ ~hasLocal /\ ~hasZip
      \/ hasLocal /\ ps.localDir \notin LocalDirs \ gone

\* C12: an invocation of kbSyncSource with both a local directory and an
\* archive payload, with neither, or with a directory that does not exist
\* ends with an error result, and from its call on the registry and every
\* persisted chunk set are as they were.
C12_BadRootChangesNothing ==
  (proc[1].pc # "idle" /\ BadRoot(proc[1].params)) =>
     /\ <<registry, sources>> = proc[1].before
     /\ proc[1].pc = "done" => proc[1].result.status = "error"

\* C12 witness: the directory was not found, for an id that has persisted chunks
C12_Witness ==
  /\ proc[1].pc = "done"
  /\ proc[1].result.error = "Directory not found"
  /\ ChunkRecords(sources, proc[1].id) # <<>>
  /\ registry # <<>>

\* C13 as stated: each result of kbUpdateAll has ok = TRUE only if the
\* re-ingestion of its entry succeeded, and ok = FALSE whenever it failed.
C13_UpdateAllReportsOutcome ==
  \A k \in 1..Len(upd.results) :
     /\ upd.results[k].ok => upd.results[k].sync = "ok"
     /\ upd.results[k].sync \in {"error", "thrown"} => ~upd.results[k].ok

\* C14: kbUpdateAll returns one result per entry the registry held when it
\* was called, in that order, and kbSyncSource has been invoked for every
\* entry that can be re-ingested, whatever became of the entries before it.
C14_UpdateAllProcessesEveryEntry ==
  /\ upd.pc \in {"loop", "wait"} => Len(upd.results) = upd.idx - 1
  /\ upd.pc = "done" => Len(upd.results) = Len(upd.reg)
  /\ \A k \in 1..Len(upd.results) :
        /\ upd.results[k].id = upd.reg[k].id
        /\ Reingestable(upd.reg[k]) => upd.results[k].sync # "none"

\* C14 witness: of two entries the re-ingestion of the first threw and the
\* second was re-ingested
C14_Witness ==
  /\ upd.pc = "done"
  /\ Len(upd.results) = 2
  /\ ~upd.results[1].ok /\ upd.results[1].sync = "thrown"
  /\ upd.results[2].ok /\ upd.results[2].sync = "ok"

\* exactly one of an existing directory or an archive payload that can be
\* obtained and opened
WellFormedRoot(ps) ==
  LET hasLocal == ps.localDir # ""
      hasZip   == ps.zipUrl # "" \/ ps.zipBase64 # ""
  IN  \/ hasLocal /\ ~hasZip /\ ps.localDir \in LocalDirs \ gone
      \/ ~hasLocal /\ ps.zipBase64 # "" /\ loadAsync(ps.zipBase64).ok
      \/ ~hasLocal /\ ps.zipBase64 = "" /\ ps.zipUrl # ""
           /\ fetchWithAuth(ps.zipUrl).ok /\ loadAsync(fetchWithAuth(ps.zipUrl).buf).ok

\* C15 as stated: an invocation of kbSyncSource with a well-formed root
\* ends with a manifest.
C15_WellFormedRootCompletes ==
  (proc[1].pc = "done" /\ WellFormedRoot(proc[1].params)) =>
     /\ proc[1].result.status = "ok"
     /\ proc[1].result.source # <<>>

\* ========================================================================
\* Properties of Search (specification Spec)
\* ========================================================================
\* kbSearch has answered
Searched == reply.op = "search" /\ reply.status = "ok"

\* C7: kbSearch returns at most topK results (at most 10 when topK is
\* omitted) even when more chunks match, and a request whose topK is greater
\* than 50 is rejected by validation and returns no results.
C7_SearchCap ==
  reply.op = "search" =>
     /\ reply.status = "ok" => Len(reply.results) <= TopKOf(reply.params.topK)
     /\ (reply.params.topK = <<>> /\ reply.status = "ok") => Len(reply.results) <= 10
     /\ (reply.params.topK # <<>> /\ reply.params.topK[1] > 50) =>
           (reply.status = "thrown" /\ reply.results = <<>>)

\* C7 witness: topK was omitted, more than 10 chunks matched and 10 results
\* were returned
C7_Witness ==
  /\ Searched
  /\ reply.params.topK = <<>>
  /\ reply.total > 10
  /\ Len(reply.results) = 10

\* the query tokens as the maximal runs of characters that are not white
\* space in the lower-cased query, each with its place
TokenSpans(q) ==
  LET s == toLowerCase(q)
  IN  { <<i, j>> \in (1..Len(s)) \X (1..Len(s)) :
          /\ i <= j
          /\ \A k \in i..j : s[k] \notin WS
          /\ (i = 1 \/ s[i - 1] \in WS)
          /\ (j = Len(s) \/ s[j + 1] \in WS) }

\* the places where token t occurs in text
Occurrences(text, t) ==
  {i \in 1..(Len(text) - Len(t) + 1) : SubSeq(text, i, i + Len(t) - 1) = t}

\* the greatest number of occurrences of t in text no two of which overlap
NonOverlapping(text, t) ==
  LET occ   == Occurrences(text, t)
      sets  == {S \in SUBSET occ : \A i \in S : \A j \in S : i = j \/ i + Len(t) <= j \/ j + Len(t) <= i}
      sizes == {Cardinality(S) : S \in sets}
  IN  MaxOf(sizes)

RECURSIVE SumSpans(_, _, _)
\* the occurrence counts summed over a set of token places
SumSpans(text, q, spans) ==
  IF spans = {} THEN 0
  ELSE LET sp == CHOOSE x \in spans : TRUE
       IN  NonOverlapping(text, SubSeq(q, sp[1], sp[2])) + SumSpans(text, q, spans \ {sp})

\* the score of a chunk text as the claim defines it
ClaimScore(text, q) == SumSpans(toLowerCase(text), toLowerCase(q), TokenSpans(q))

\* the persisted chunk records in the scope of a search
InScope(sp) ==
  { rec \in UNION { Range(ChunkRecords(sources, registry[k].id)) : k \in 1..Len(registry) } :
      /\ (sp.sourceIds = <<>> \/ \E k \in 1..Len(sp.sourceIds) : sp.sourceIds[k] = rec.sourceId)
      /\ (sp.pathPrefix = <<>> \/ startsWith(rec.path, sp.pathPrefix)) }

\* C8: the hits of kbSearch before capping, whose number is total, are
\* exactly the chunks in scope whose score is greater than 0, each with the
\* sum over the query tokens of the number of non-overlapping occurrences of
\* the token in the lower-cased chunk text as its score; so a chunk holding a
\* token 3 times scores higher than one holding it once, and a chunk without
\* any token is absent.
C8_HitSetAndScore ==
  Searched =>
     LET sp      == reply.params
         scope   == InScope(sp)
         matched == {rec \in scope : ClaimScore(rec.text, sp.q) > 0}
     IN  /\ reply.total = Len(reply.hits)
         /\ reply.total = Cardinality(matched)
         /\ {h.chunkId : h \in Range(reply.hits)} = {rec.id : rec \in matched}
         /\ \A h \in Range(reply.hits) : \A rec \in matched :
               h.chunkId = rec.id => h.score = ClaimScore(rec.text, sp.q)
         /\ \A h1 \in Range(reply.hits) : \A rec1 \in matched : \A rec2 \in scope :
               (/\ Cardinality(TokenSpans(sp.q)) = 1
                /\ h1.chunkId = rec1.id
                /\ ClaimScore(rec1.text, sp.q) = 3
                /\ ClaimScore(rec2.text, sp.q) = 1)
               => \E h2 \in Range(reply.hits) : h2.chunkId = rec2.id /\ h1.score > h2.score

\* C8 witness: a one-token search found a chunk holding the token 3 times and
\* one holding it once, and left out a chunk in scope that does not hold it
C8_Witness ==
  /\ Searched
  /\ Cardinality(TokenSpans(reply.params.q)) = 1
  /\ \E h1 \in Range(reply.hits) : \E h2 \in Range(reply.hits) : h1.score = 3 /\ h2.score = 1
  /\ \E rec \in InScope(reply.params) : \A h \in Range(reply.hits) : h.chunkId # rec.id

\* C9: kbSearch returns its results in non-increasing score order, and no hit
\* left out of the results has a strictly higher score than a returned one.
C9_ScoreOrder ==
  Searched =>
     /\ \A i \in 1..Len(reply.results) : \A j \in i..Len(reply.results) :
           reply.results[i].score >= reply.results[j].score
     /\ Range(reply.results) \subseteq Range(reply.hits)
     /\ \A h \in Range(reply.hits) \ Range(reply.results) :
           \A r \in Range(reply.results) : h.score <= r.score

\* C9 witness: two results with different scores were returned and a hit with
\* a lower score was left out
C9_Witness ==
  /\ Searched
  /\ Len(reply.results) = 2
  /\ reply.results[1].score > reply.results[2].score
  /\ \E h \in Range(reply.hits) \ Range(reply.results) : h.score < reply.results[2].score

\* ========================================================================
\* Properties of the chain and explorer tools (specification SpecRpc)
\* ========================================================================
\* the tool has returned a result object
Answered == rpc.pc = "done" /\ rpc.resp.kind \in {"ok", "error"}

\* C16 as stated: in inspectProxy and in the dual-source tools, the result
\* holds the results of the requests that succeeded, and the failure of a
\* request beside them is an error of that request's own part.
C16_FailuresAreInline ==
  (Answered /\ rpc.tool \in DualTools \cup {"inspectProxy"}) =>
     LET seen  == rpc.resp.seen
         okSet == {i \in 1..Len(seen) : seen[i] = "ok"}
     IN  \A i \in 1..Len(seen) :
            /\ seen[i] = "ok" => i \in rpc.resp.has
            /\ (seen[i] = "fail" /\ okSet # {}) => i \in rpc.resp.inline

\* C17 as stated: while a dual-source tool waits for its primary request,
\* the Routescan request has been sent.
C17_RoutescanSentWithRpc ==
  (rpc.tool \in DualTools /\ rpc.pc = "await" /\ rpc.state[1] = "pending") =>
     \E i \in 1..Len(rpc.sent) : rpc.sent[i].name = "routescan"

\* C17 amended: in a dual-source tool the Routescan request is sent only
\* after every RPC request of the operation has returned successfully (so
\* not at all when one fails), and the tool returns only when no request it
\* issued is outstanding.
C17_RoutescanAfterRpc ==
  rpc.tool \in DualTools =>
     /\ \A i \in 1..Len(rpc.sent) :
           rpc.sent[i].name = "routescan" => \A j \in 1..(i - 1) : rpc.state[j] = "ok"
     /\ (\E j \in 1..Len(rpc.state) : rpc.state[j] = "fail" /\ rpc.sent[j].name # "routescan") =>
           \A i \in 1..Len(rpc.sent) : rpc.sent[i].name # "routescan"
     /\ rpc.pc = "done" => \A i \in 1..Len(rpc.state) : rpc.state[i] # "pending"

\* C17 witness: getBlockNumber has returned with both RPC results and the
\* Routescan cross-check, sent third
C17_Witness ==
  /\ rpc.tool = "getBlockNumber"
  /\ rpc.pc = "done"
  /\ rpc.resp.kind = "ok"
  /\ Len(rpc.sent) = 3 /\ rpc.sent[3].name = "routescan"

\* C18 as stated: every successful response of a core RPC tool has the
\* fields rpc.endpoint and routescan.
C18_DualSourceFields ==
  (rpc.tool \in CoreTools /\ rpc.pc = "done" /\ rpc.resp.kind = "ok") =>
     {"rpc.endpoint", "routescan"} \subseteq rpc.resp.fields

\* C19: a tool called without a chain works on plasma; a tool called with a
\* chain that is no key of CHAINS is rejected by the validation, no request
\* having been issued; every request a tool issues goes to the chain given.
C19_ChainValidation ==
  rpc.pc # "idle" =>
     /\ rpc.given = Omitted => rpc.chain = "plasma" /\ rpc.resp.kind # "invalid"
     /\ rpc.given \notin CHAINS \cup {Omitted} =>
           rpc.pc = "done" /\ rpc.resp.kind = "invalid" /\ rpc.sent = <<>>
     /\ \A i \in 1..Len(rpc.sent) :
           /\ rpc.sent[i].chain \in CHAINS
           /\ rpc.given # Omitted => rpc.sent[i].chain = rpc.given
           /\ rpc.given = Omitted => rpc.sent[i].chain = "plasma"

\* C19 witness: a call with the chain "ethereum" has been rejected
C19_Witness ==
  /\ rpc.pc = "done"
  /\ rpc.given = "ethereum"
  /\ rpc.resp.kind = "invalid"

\* C20: at most one client is created per chain id, the cache holds it from
\* then on, every call for the chain id returns it, and a call for a chain
\* id that is not supported throws and leaves no cache entry.
C20_GetOrCreate ==
  /\ \A c \in ChainIds :
        /\ Cardinality({k \in 1..Len(clients.made) : clients.made[k] = c}) <= 1
        /\ (\E k \in 1..Len(clients.made) : clients.made[k] = c) => c \in DOMAIN clientCache
        /\ c \notin DOMAIN clientCache => clients.returned[c] = {}
  /\ \A c \in DOMAIN clientCache :
        /\ c \in CHAINS
        /\ clientCache[c] \in 1..Len(clients.made)
        /\ clients.made[clientCache[c]] = c
        /\ clients.returned[c] \subseteq {clientCache[c]}
  /\ clients.gets > 0 =>
        IF clients.last.chainId \in CHAINS
        THEN ~clients.last.thrown /\ clients.last.client = clientCache[clients.last.chainId]
        ELSE clients.last.thrown

\* C20 witness: a call for plasma was answered from the cache, after a call
\* for a chain that is not supported
C20_Witness ==
  /\ clients.hits > 0
  /\ clients.gets = MaxGets
  /\ clients.last.chainId = "plasma"
  /\ clients.made = <<"plasma">>
  /\ clients.returned["plasma"] = {1}

\* ========================================================================
\* Properties of retrieval (specification Spec)
\* ========================================================================
\* kbGet was called with a source id and a path, and no chunk id
GotByPath ==
  /\ reply.op = "get"
  /\ reply.params.chunkId = <<>>
  /\ reply.params.sourceId # <<>>
  /\ reply.params.path # <<>>

\* C21 as stated: kbGet called with a source id and a path returns, for a
\* registered source of either origin, the content of the file or a
\* not-found error value, a not-found error value when the id is not
\* registered, and never raises an exception.
C21_GetBySourceAndPath ==
  GotByPath =>
     /\ reply.status \in {"ok", "error"}
     /\ (\A k \in 1..Len(registry) : registry[k].id # reply.params.sourceId) =>
           reply.status = "error"

\* ========================================================================
\* Further properties of the Chunker (specification SpecChunk)
\* ========================================================================
\* C22 as stated: chunking an empty file content yields zero chunks, under
\* the heading policy and under the window policy.
C22_EmptyYieldsNoChunks ==
  (chunked /\ chunkInput = <<>>) => Len(parts) = 0

\* ========================================================================
\* Concurrent ingestion under one source id (specification SpecSame)
\* ========================================================================
\* the callers whose invocation has finished and whose result is not yet taken
Finished == {p \in Procs : proc[p].pc = "done"}

\* every invocation made so far has finished, there are at least two of
\* them, and all are for the same source id
AllFinishedSameId ==
  /\ Cardinality(Finished) = calls
  /\ calls >= 2
  /\ \A p \in Finished : \A q \in Finished : proc[p].id = proc[q].id

\* the registry entries of a source id
EntriesOf(id) == SelectSeq(registry, LAMBDA r : r.id = id)

\* the persisted state of the id is what the invocation of caller p alone
\* leaves: its manifest in the registry and in manifest.json, its chunks in
\* chunks.jsonl
ResultOfAlone(p) ==
  /\ Completed(p)
  /\ EntriesOf(proc[p].id) = proc[p].manifest
  /\ proc[p].id \in DOMAIN sources
  /\ sources[proc[p].id].manifest = proc[p].manifest
  /\ sources[proc[p].id].chunks = <<proc[p].chunksOut>>

\* C23: when concurrent invocations for one source id have all finished, each
\* persisted file of the id (its registry entry, its manifest.json, its
\* chunks.jsonl) is, if present, the one some invocation wrote, whole; the
\* files need not come from the same invocation, so the persisted state can
\* be the result of no invocation alone (the witness).
C23_FilesFromSomeInvocation ==
  AllFinishedSameId =>
     \A p \in Finished :
        LET id == proc[p].id
        IN  /\ Len(EntriesOf(id)) <= 1
            /\ EntriesOf(id) # <<>> =>
                  \E q \in Finished : Completed(q) /\ EntriesOf(id) = proc[q].manifest
            /\ (id \in DOMAIN sources /\ sources[id].manifest # <<>>) =>
                  \E q \in Finished : sources[id].manifest = proc[q].manifest
            /\ (id \in DOMAIN sources /\ sources[id].chunks # <<>>) =>
                  \E q \in Finished : Completed(q) /\ sources[id].chunks = <<proc[q].chunksOut>>

\* C23 witness: two invocations for one id have both returned ok, the
\* registry entry is the manifest of one, chunks.jsonl holds the chunks of
\* the other, and the persisted state is the result of neither alone
C23_Witness ==
  /\ AllFinishedSameId
  /\ \E p \in Finished : \E q \in Finished \ {p} :
        /\ Completed(p) /\ Completed(q)
        /\ EntriesOf(proc[p].id) = proc[p].manifest
        /\ sources[proc[p].id].chunks = <<proc[q].chunksOut>>
        /\ proc[p].chunksOut # proc[q].chunksOut
  /\ \A p \in Finished : ~ResultOfAlone(p)

\* the chunk records kbSyncSource pushes for the file being chunked
Records == FileRecords(S1, A_MD, fext, chunkInput)

\* C24: every chunk record kbSyncSource makes of a file satisfies
\* 1 <= startLine <= endLine <= N, N the number of lines of the file (the
\* pieces between its line breaks), under both policies and for every
\* content; there is one record per chunk, with the chunk's range.
C24_RecordLineBounds ==
  chunked =>
     LET N    == Len(FileLines)
         recs == Records
     IN  /\ Len(recs) = Len(parts)
         /\ \A k \in 1..Len(recs) :
               /\ 1 <= recs[k].startLine
               /\ recs[k].startLine <= recs[k].endLine
               /\ recs[k].endLine <= N
               /\ recs[k].startLine = parts[k].start + 1
               /\ recs[k].endLine = parts[k].end + 1

\* C24 witness: a .md file longer than one fallback window has been chunked
\* into several chunks, the last of which ends at the file's last line
C24_Witness ==
  /\ chunked /\ fext = MD
  /\ Len(FileLines) > maxLines
  /\ Len(parts) >= 2
  /\ parts[Len(parts)].end + 1 = Len(FileLines)

\* ========================================================================
\* Properties of kbStatus and kbUpdateAll (specification SpecUpd)
\* ========================================================================
\* C25 as stated: kbStatus reports, for every registered source, as
\* chunkCount the number of chunk records persisted for it, and between
\* calls of kbSyncSource and kbUpdateAll made one after the other this number
\* is the chunkCount of the source's registry manifest.
C25_StatusCountIsManifestCount ==
  reply.op = "status" =>
     /\ Len(reply.sources) = Len(registry)
     /\ \A k \in 1..Len(reply.sources) :
           /\ reply.sources[k].id = registry[k].id
           /\ reply.sources[k].chunkCount = Len(ChunkRecords(sources, registry[k].id))
           /\ reply.sources[k].chunkCount = registry[k].chunkCount

\* the number of lines of a chunk
LinesOf(c) == c.end - c.start + 1

\* the lines two chunks have in common
Shared(c, d) == {l \in (c.start)..(c.end) : d.start <= l /\ l <= d.end}

\* C26: the windows chunkCode emits start 120 lines apart; every chunk but
\* the last has exactly 150 lines, two consecutive chunks share exactly 30
\* lines, the last chunk ends at the last line of the file, and a file of at
\* most 150 lines yields exactly one chunk.
C26_WindowGeometry ==
  (chunked /\ fext # MD) =>
     LET N == Len(FileLines)
         n == Len(parts)
     IN  /\ n >= 1
         /\ \A k \in 1..n : parts[k].start = (k - 1) * 120
         /\ \A k \in 1..(n - 1) : LinesOf(parts[k]) = 150
         /\ \A k \in 1..(n - 1) : Cardinality(Shared(parts[k], parts[k + 1])) = 30
         /\ parts[n].end + 1 = N
         /\ N <= 150 => n = 1
         /\ N > 150 => n > 1

\* C26 witness: a code file has been cut into three or more windows, the
\* last one shorter than a full window
C26_Witness ==
  /\ chunked /\ fext # MD
  /\ Len(parts) >= 3
  /\ parts[2].start = 120
  /\ LinesOf(parts[Len(parts)]) < windowSize

\* ========================================================================
\* Further properties of the Indexer (specification Spec)
\* ========================================================================
\* the invocation of caller p has thrown after its parameters were accepted
Thrown(p) == proc[p].pc = "done" /\ proc[p].result.status = "thrown"

\* the registry listed the id of caller p's invocation when it was called
ListedBefore(p) ==
  \E k \in 1..Len(proc[p].before[1]) : proc[p].before[1][k].id = proc[p].id

\* C27 as stated: when an invocation of kbSyncSource for a source id that is
\* already ingested fails after its parameters were accepted (the archive
\* cannot be opened, the directory traversal raises), the chunks persisted
\* for the id and the registry are as they were before the call.
C27_FailedIngestionKeepsStore ==
  (Thrown(1) /\ ListedBefore(1)) =>
     /\ registry = proc[1].before[1]
     /\ ChunkRecords(sources, proc[1].id) = ChunkRecords(proc[1].before[2], proc[1].id)

\* C28 as stated: an invocation of kbSyncSource for a source id changes only
\* that id: when it has ended, with a manifest or an error, the registry
\* entry and the persisted chunks of every other id the registry listed are
\* what they were when it was called.
C28_OnlyOwnSourceChanges ==
  proc[1].pc = "done" =>
     LET reg0  == proc[1].before[1]
         srcs0 == proc[1].before[2]
     IN  \A k \in 1..Len(reg0) :
            reg0[k].id # proc[1].id =>
               /\ \E j \in 1..Len(registry) : registry[j] = reg0[k]
               /\ ChunkRecords(sources, reg0[k].id) = ChunkRecords(srcs0, reg0[k].id)

\* every entry of the registry kbUpdateAll read is a local directory that
\* is still there
AllLocalUnchanged ==
  \A k \in 1..Len(upd.reg) :
     upd.reg[k].type = "local_dir" /\ upd.reg[k].rootPath \in LocalDirs \ gone

\* C29 as stated: when kbUpdateAll has run over a registry of local-directory
\* sources whose directories are unchanged, the registered ids, the tags of
\* each source and the chunk ids persisted for each source are what they were
\* when it was called, whatever includeExts and maxFiles the sources were
\* ingested with.
C29_UpdateAllIsIdempotent ==
  (upd.pc = "done" /\ AllLocalUnchanged) =>
     /\ {registry[j].id : j \in 1..Len(registry)} = {upd.reg[k].id : k \in 1..Len(upd.reg)}
     /\ \A k \in 1..Len(upd.reg) :
           /\ \A j \in 1..Len(registry) :
                 registry[j].id = upd.reg[k].id => registry[j].tags = upd.reg[k].tags
           /\ ChunkIds(sources, upd.reg[k].id) = ChunkIds(upd.srcs, upd.reg[k].id)

\* the number of files under the root of a parameter object that can be read
\* and have an allow-listed text extension
ReadableEligible(ps) ==
  IF ps.localDir # ""
  THEN LET files == FilterFiles(walkDir(ps.localDir).files, ps.includeExts)
       IN  Cardinality({k \in 1..Len(files) : readFile(ps.localDir, files[k]).ok})
  ELSE LET buf     == IF ps.zipBase64 # "" THEN ps.zipBase64 ELSE fetchWithAuth(ps.zipUrl).buf
           entries == loadAsync(buf).entries
       IN  Cardinality({k \in 1..Len(entries) :
              LET ext == toLowerCase(extname(EntryRel(entries[k].name, ps.zipPathPrefix)))
              IN  /\ ~entries[k].dir /\ entries[k].readable
                  /\ includes(ps.includeExts, ext) /\ isTextFile(ext)})

\* C30 as stated: for a local directory and for an archive alike, the
\* manifest's fileCount never exceeds maxFiles, and when the root holds at
\* least maxFiles readable files with an allow-listed text extension, exactly
\* maxFiles files are ingested.
C30_FileCapOnEligibleFiles ==
  (Completed(1) /\ proc[1].params.maxFiles # 0) =>
     LET ps == proc[1].params
         m  == proc[1].manifest[1]
     IN  /\ m.fileCount <= ps.maxFiles
         /\ ReadableEligible(ps) >= ps.maxFiles => m.fileCount = ps.maxFiles

====
